---- MODULE Spec2Model ----
(***************************************************************************)
(* pypolicy: a policy DSL compiled to a stack bytecode (codegen.py),       *)
(* executed by a stack interpreter (vm.py) and stored in a framed binary   *)
(* container (serde.py).                                                    *)
(*                                                                         *)
(* Indices follow the source: pc, jump indices and byte offsets are        *)
(* 0-based; a TLA+ sequence s holds the source's s[i] at s[i + 1].         *)
(***************************************************************************)
EXTENDS Integers, Sequences, FiniteSets, TLC

(***************************************************************************)
(* Values (vm.py, the iObject classes).  The tag t is iObject.type(); the  *)
(* payload field is named after the host type it holds, so that two        *)
(* records with the same fields always hold payloads of the same type.     *)
(* List, Dict and host iterators are host objects with identity: the value *)
(* holds a reference into the heap.                                        *)
(***************************************************************************)
iNil == [t |-> "nil"]

iInteger(val) == [t |-> "num", n |-> val]

\* iInteger(...) around a host string: what BIN_ADD builds from two strings
iIntegerStr(val) == [t |-> "num", s |-> val]

iBool(val) == [t |-> "bool", b |-> val]

iString(val) == [t |-> "str", s |-> val]

iFunction(code, n_params, param_names) ==
    [t |-> "func", code |-> code, n_params |-> n_params, param_names |-> param_names]

\* vm.py's iPyfunction keeps func and n_params; varargs is the flag the
\* registration in stdlib.py passes (the interpreter never reads it)
iPyfunction(func, n_params, varargs) ==
    [t |-> "pyfunc", func |-> func, n_params |-> n_params, varargs |-> varargs]

iBoundMethod(func, self_obj) == [t |-> "method", func |-> func, self_obj |-> self_obj]

iList(ref) == [t |-> "list", ref |-> ref]

iDict(ref) == [t |-> "dict", ref |-> ref]

\* iPyObject(range(n))
iPyRange(n) == [t |-> "pyobj", range |-> n]

\* iPyObject(it), it a host iterator object
iPyIter(ref) == [t |-> "pyobj", iter |-> ref]

\* iPyObject(getattr(obj, name)) for an attribute that is a host object (a
\* bound host method, the list behind a List): kept by where it came from
iPyHost(obj, name) == [t |-> "pyobj", attr |-> name, of |-> obj]

Instruction(op, arg) == [op |-> op, arg |-> arg]

(***************************************************************************)
(* The compiler (codegen.py).  A CodeGen object is its two fields; every   *)
(* gen_* method takes the object and returns it as the method leaves it.   *)
(* Syntax-tree nodes are records: k is Tree.data, the other fields are the *)
(* children the method picks out of Tree.children.                         *)
(***************************************************************************)
CodeGen == [code |-> <<>>, local_scopes |-> <<>>]

None == [k |-> "None"]

emit(cg, op, arg) == [cg EXCEPT !.code = Append(@, Instruction(op, arg))]

emit_jump(cg, op) == emit(cg, op, iInteger(0))

\* a variant that leaves the placeholder
patch_skipped(cg, jidx, target_idx) == cg

patch(cg, jidx, target_idx) ==
    [cg EXCEPT !.code[jidx + 1] = Instruction(@.op, iInteger(target_idx - jidx))]

\* the test `self.code and self.code[-1][0] == Opcode.RETURN`
LastIsReturn(cg) == cg.code # <<>> /\ cg.code[Len(cg.code)].op = "RETURN"

InLocalScope(cg, name) ==
    cg.local_scopes # <<>> /\ name \in cg.local_scopes[Len(cg.local_scopes)]

AddLocal(cg, name) ==
    [cg EXCEPT !.local_scopes[Len(cg.local_scopes)] = @ \cup {name}]

SeqToSet(s) == {s[i] : i \in 1..Len(s)}

RECURSIVE _gen(_, _), GenChildren(_, _, _), GenUntilReturn(_, _, _),
          GenClauses(_, _, _, _), PatchAll(_, _, _), GenDictItems(_, _, _),
          GenHops(_, _, _), GenSuffixes(_, _, _)

\* `for x in xs: self._gen(x)`
GenChildren(cg, xs, i) ==
    IF i > Len(xs) THEN cg ELSE GenChildren(_gen(cg, xs[i]), xs, i + 1)

\* the loop of gen_start and gen_block: stop once the last instruction is RETURN
GenUntilReturn(cg, children, i) ==
    IF i > Len(children) THEN cg
    ELSE LET c1 == _gen(cg, children[i])
         IN  IF LastIsReturn(c1) THEN c1 ELSE GenUntilReturn(c1, children, i + 1)

gen_start(cg, node) == GenUntilReturn(cg, node.children, 1)

gen_block(cg, node) == GenUntilReturn(cg, node.children, 1)

\* a variant that stores every assigned name as a global
gen_assign_global(cg, node) == emit(_gen(cg, node.expr), "STORE", iString(node.name))

gen_assign(cg, node) ==
    LET c1 == _gen(cg, node.expr)
    IN  IF InLocalScope(c1, node.name)
        THEN emit(c1, "STORE_LOCAL", iString(node.name))
        ELSE IF c1.local_scopes # <<>>
        THEN emit(AddLocal(c1, node.name), "STORE_LOCAL", iString(node.name))
        ELSE emit(c1, "STORE", iString(node.name))

gen_print_stmt(cg, node) ==
    LET c1 == IF node.expr # None THEN _gen(cg, node.expr) ELSE emit(cg, "PUSH", iNil)
    IN  emit(c1, "PRINT", iNil)

\* a variant without the implicit PUSH Nil, RETURN
gen_func_def_bare(cg, node) ==
    LET inner0 == [CodeGen EXCEPT !.local_scopes = <<SeqToSet(node.params)>>]
        inner1 == _gen(inner0, node.body)
        fn_obj == iFunction(inner1.code, Len(node.params), node.params)
    IN  emit(emit(cg, "PUSH", fn_obj), "STORE", iString(node.name))

gen_func_def(cg, node) ==
    LET inner0 == [CodeGen EXCEPT !.local_scopes = <<SeqToSet(node.params)>>]
        inner1 == _gen(inner0, node.body)
        inner2 == emit(emit(inner1, "PUSH", iNil), "RETURN", iNil)
        fn_obj == iFunction(inner2.code, Len(node.params), node.params)
    IN  emit(emit(cg, "PUSH", fn_obj), "STORE", iString(node.name))

gen_return_stmt(cg, node) ==
    LET c1 == IF node.expr # None THEN _gen(cg, node.expr) ELSE emit(cg, "PUSH", iNil)
    IN  emit(c1, "RETURN", iNil)

gen_lambda(cg, node) ==
    LET inner0 == [CodeGen EXCEPT !.local_scopes = <<SeqToSet(node.params)>>]
        inner2 == IF node.body.k = "lambda_body_expr"
                  THEN emit(_gen(inner0, node.body.expr), "RETURN", iNil)
                  ELSE emit(emit(_gen(inner0, node.body.block), "PUSH", iNil),
                            "RETURN", iNil)
        fn_obj == iFunction(inner2.code, Len(node.params), node.params)
    IN  emit(cg, "PUSH", fn_obj)

gen_for_stmt(cg, node) ==
    LET c1 == emit(_gen(cg, node.iterable), "ITER_INIT", iNil)
        loop_top == Len(c1.code)
        c2 == emit(c1, "ITER_NEXT", iNil)
        j_exit == Len(c2.code)
        c3 == emit_jump(c2, "JUMP_IF_FALSE")
        c4 == IF c3.local_scopes # <<>>
              THEN emit(AddLocal(c3, node.var), "STORE_LOCAL", iString(node.var))
              ELSE emit(c3, "STORE", iString(node.var))
        c5 == _gen(c4, node.body)
        j_back == Len(c5.code)
        c6 == patch(emit_jump(c5, "JUMP"), j_back, loop_top)
        exit_idx == Len(c6.code)
    IN  emit(patch(c6, j_exit, exit_idx), "POP", iNil)

gen_number(cg, node) == emit(cg, "PUSH", iInteger(node.v))

\* node.v is the token text between its quotes
gen_string(cg, node) == emit(cg, "PUSH", iString(node.v))

gen_true(cg, node) == emit(cg, "PUSH", iBool(TRUE))

gen_false(cg, node) == emit(cg, "PUSH", iBool(FALSE))

\* a variant that reads every name from the frame
gen_var_local(cg, node) == emit(cg, "PUSH_LOCAL", iString(node.name))

gen_var(cg, node) ==
    IF InLocalScope(cg, node.name)
    THEN emit(cg, "PUSH_LOCAL", iString(node.name))
    ELSE emit(cg, "PUSH_GLOBAL", iString(node.name))

gen_list(cg, node) ==
    emit(GenChildren(cg, node.items, 1), "MAKE_LIST", iInteger(Len(node.items)))

\* each item: PUSH the key (a bare name or a string), then the value
GenDictItems(cg, items, i) ==
    IF i > Len(items) THEN cg
    ELSE GenDictItems(_gen(emit(cg, "PUSH", iString(items[i].key)), items[i].val),
                      items, i + 1)

gen_dict(cg, node) ==
    emit(GenDictItems(cg, node.items, 1), "MAKE_DICT", iInteger(Len(node.items)))

\* a variant that generates the right operand first
_bin_swapped(cg, node, op) == emit(_gen(_gen(cg, node.r), node.l), op, iNil)

_bin(cg, node, op) == emit(_gen(_gen(cg, node.l), node.r), op, iNil)

gen_neg(cg, node) ==
    emit(_gen(emit(cg, "PUSH", iInteger(0)), node.expr), "BIN_SUB", iNil)

gen_not_op(cg, node) ==
    LET c1 == IF node.expr = None THEN emit(cg, "PUSH", iBool(FALSE))
              ELSE _gen(cg, node.expr)
    IN  emit(c1, "NOT", iNil)

\* a variant that evaluates both operands and keeps the left one
gen_and_eager(cg, node) == emit(_gen(_gen(cg, node.l), node.r), "POP", iNil)

gen_and_op(cg, node) ==
    LET c1 == _gen(cg, node.l)
        j_false == Len(c1.code)
        c2 == _gen(emit_jump(c1, "JUMP_IF_FALSE"), node.r)
        j_end == Len(c2.code)
        c3 == emit_jump(c2, "JUMP")
        false_pos == Len(c3.code)
        c4 == emit(patch(c3, j_false, false_pos), "PUSH", iBool(FALSE))
        end_pos == Len(c4.code)
    IN  patch(c4, j_end, end_pos)

\* a variant that lowers `or` as `and` is lowered
gen_or_as_and(cg, node) == gen_and_op(cg, node)

gen_or_op(cg, node) ==
    LET c1 == _gen(cg, node.l)
        j_true == Len(c1.code)
        c2 == _gen(emit_jump(c1, "JUMP_IF_TRUE"), node.r)
        j_end == Len(c2.code)
        c3 == emit_jump(c2, "JUMP")
        true_pos == Len(c3.code)
        c4 == emit(patch(c3, j_true, true_pos), "PUSH", iBool(TRUE))
        end_pos == Len(c4.code)
    IN  patch(c4, j_end, end_pos)

\* the clause loop of gen_if_stmt; returns the CodeGen and the end jumps
GenClauses(cg, clauses, i, end_jumps) ==
    IF i > Len(clauses) THEN [cg |-> cg, end_jumps |-> end_jumps]
    ELSE LET c1 == _gen(cg, clauses[i].cond)
             jfalse == Len(c1.code)
             c2 == _gen(emit_jump(c1, "JUMP_IF_FALSE"), clauses[i].block)
             jend == Len(c2.code)
             c3 == emit_jump(c2, "JUMP")
         IN  GenClauses(patch(c3, jfalse, Len(c3.code)), clauses, i + 1,
                        Append(end_jumps, jend))

PatchAll(cg, end_jumps, end_label) ==
    IF end_jumps = <<>> THEN cg
    ELSE PatchAll(patch(cg, Head(end_jumps), end_label), Tail(end_jumps), end_label)

\* a variant that leaves the else block out
gen_if_no_else(cg, node) ==
    LET r == GenClauses(cg, node.clauses, 1, <<>>)
    IN  PatchAll(r.cg, r.end_jumps, Len(r.cg.code))

gen_if_stmt(cg, node) ==
    LET r == GenClauses(cg, node.clauses, 1, <<>>)
        c1 == IF node.else_block # None THEN _gen(r.cg, node.else_block) ELSE r.cg
    IN  PatchAll(c1, r.end_jumps, Len(c1.code))

gen_expr_stmt(cg, node) == emit(_gen(cg, node.expr), "POP", iNil)

\* all hops but the last of an lvalue chain
GenHops(cg, hops, i) ==
    IF i > Len(hops) - 1 THEN cg
    ELSE IF hops[i].k = "l_attr"
    THEN GenHops(emit(cg, "GETATTR", iString(hops[i].name)), hops, i + 1)
    ELSE GenHops(emit(_gen(cg, hops[i].expr), "INDEX", iNil), hops, i + 1)

gen_lvalue_assign(cg, node) ==
    LET c1 == IF InLocalScope(cg, node.name)
              THEN emit(cg, "PUSH_LOCAL", iString(node.name))
              ELSE emit(cg, "PUSH_GLOBAL", iString(node.name))
        c2 == GenHops(c1, node.hops, 1)
        last == node.hops[Len(node.hops)]
    IN  IF last.k = "l_attr"
        THEN emit(_gen(c2, node.expr), "SET_ATTR", iString(last.name))
        ELSE emit(_gen(_gen(c2, last.expr), node.expr), "SET_INDEX", iNil)

GenSuffixes(cg, sufs, i) ==
    IF i > Len(sufs) THEN cg
    ELSE LET suf == sufs[i]
         IN  CASE suf.k = "index" ->
                    GenSuffixes(emit(_gen(cg, suf.expr), "INDEX", iNil), sufs, i + 1)
               [] suf.k = "attr" ->
                    GenSuffixes(emit(cg, "GETATTR", iString(suf.name)), sufs, i + 1)
               [] suf.k = "call" ->
                    GenSuffixes(emit(GenChildren(cg, suf.args, 1), "CALL_FN",
                                     iInteger(Len(suf.args))), sufs, i + 1)

gen_postfix(cg, node) == GenSuffixes(_gen(cg, node.atom), node.suffixes, 1)

_gen(cg, node) ==
    CASE node.k = "None" -> cg
      [] node.k = "start" -> gen_start(cg, node)
      [] node.k = "block" -> gen_block(cg, node)
      [] node.k = "assign" -> gen_assign(cg, node)
      [] node.k = "print_stmt" -> gen_print_stmt(cg, node)
      [] node.k = "func_def" -> gen_func_def(cg, node)
      [] node.k = "return_stmt" -> gen_return_stmt(cg, node)
      [] node.k = "lambda" -> gen_lambda(cg, node)
      [] node.k = "for_stmt" -> gen_for_stmt(cg, node)
      [] node.k = "number" -> gen_number(cg, node)
      [] node.k = "string" -> gen_string(cg, node)
      [] node.k = "true" -> gen_true(cg, node)
      [] node.k = "false" -> gen_false(cg, node)
      [] node.k = "var" -> gen_var(cg, node)
      [] node.k = "list" -> gen_list(cg, node)
      [] node.k = "dict" -> gen_dict(cg, node)
      [] node.k = "add" -> _bin(cg, node, "BIN_ADD")
      [] node.k = "sub" -> _bin(cg, node, "BIN_SUB")
      [] node.k = "mul" -> _bin(cg, node, "BIN_MUL")
      [] node.k = "div" -> _bin(cg, node, "BIN_DIV")
      [] node.k = "mod" -> _bin(cg, node, "BIN_MOD")
      [] node.k = "eq" -> _bin(cg, node, "EQ")
      [] node.k = "ne" -> _bin(cg, node, "NEQ")
      [] node.k = "gt" -> _bin(cg, node, "GT")
      [] node.k = "lt" -> _bin(cg, node, "LT")
      [] node.k = "ge" -> _bin(cg, node, "GTE")
      [] node.k = "le" -> _bin(cg, node, "LTE")
      [] node.k = "in_op" -> _bin(cg, node, "BIN_IN")
      [] node.k = "neg" -> gen_neg(cg, node)
      [] node.k = "not_op" -> gen_not_op(cg, node)
      [] node.k = "and_op" -> gen_and_op(cg, node)
      [] node.k = "or_op" -> gen_or_op(cg, node)
      [] node.k = "if_stmt" -> gen_if_stmt(cg, node)
      [] node.k = "expr_stmt" -> gen_expr_stmt(cg, node)
      [] node.k = "lvalue_assign" -> gen_lvalue_assign(cg, node)
      [] node.k = "postfix" -> gen_postfix(cg, node)

\* CodeGen().compile(tree)
compile(tree) == _gen(CodeGen, tree).code

(***************************************************************************)
(* Syntax trees, as the parser hands them to the compiler.                 *)
(***************************************************************************)
Num(v) == [k |-> "number", v |-> v]

StrLit(v) == [k |-> "string", v |-> v]

True == [k |-> "true"]

False == [k |-> "false"]

Var(name) == [k |-> "var", name |-> name]

ListLit(items) == [k |-> "list", items |-> items]

Item(key, val) == [key |-> key, val |-> val]

DictLit(items) == [k |-> "dict", items |-> items]

Bin(k, l, r) == [k |-> k, l |-> l, r |-> r]

Neg(expr) == [k |-> "neg", expr |-> expr]

Not(expr) == [k |-> "not_op", expr |-> expr]

SufCall(args) == [k |-> "call", args |-> args]

SufIndex(expr) == [k |-> "index", expr |-> expr]

SufAttr(name) == [k |-> "attr", name |-> name]

Postfix(atom, suffixes) == [k |-> "postfix", atom |-> atom, suffixes |-> suffixes]

Call(atom, args) == Postfix(atom, <<SufCall(args)>>)

Index(atom, expr) == Postfix(atom, <<SufIndex(expr)>>)

MethodCall(atom, name, args) == Postfix(atom, <<SufAttr(name), SufCall(args)>>)

LambdaExpr(params, expr) ==
    [k |-> "lambda", params |-> params,
     body |-> [k |-> "lambda_body_expr", expr |-> expr]]

Block(children) == [k |-> "block", children |-> children]

LambdaBlock(params, children) ==
    [k |-> "lambda", params |-> params,
     body |-> [k |-> "lambda_body_block", block |-> Block(children)]]

Assign(name, expr) == [k |-> "assign", name |-> name, expr |-> expr]

PrintStmt(expr) == [k |-> "print_stmt", expr |-> expr]

ReturnStmt(expr) == [k |-> "return_stmt", expr |-> expr]

ExprStmt(expr) == [k |-> "expr_stmt", expr |-> expr]

Clause(cond, children) == [cond |-> cond, block |-> Block(children)]

IfStmt(clauses) == [k |-> "if_stmt", clauses |-> clauses, else_block |-> None]

IfElse(clauses, children) ==
    [k |-> "if_stmt", clauses |-> clauses, else_block |-> Block(children)]

ForStmt(var, iterable, children) ==
    [k |-> "for_stmt", var |-> var, iterable |-> iterable, body |-> Block(children)]

FuncDef(name, params, children) ==
    [k |-> "func_def", name |-> name, params |-> params, body |-> Block(children)]

HopIndex(expr) == [k |-> "l_index", expr |-> expr]

HopAttr(name) == [k |-> "l_attr", name |-> name]

LvalueAssign(name, hops, expr) ==
    [k |-> "lvalue_assign", name |-> name, hops |-> hops, expr |-> expr]

Start(children) == [k |-> "start", children |-> children]

(***************************************************************************)
(* The interpreter (vm.py, class Interpreter).                             *)
(*   call_stack    the activations of exec, innermost last: exec calls     *)
(*                 itself for a Function callee, each activation with its  *)
(*                 own code and pc                                         *)
(*   stack, globals, local_frames, method_table   the fields of the object *)
(*   heap          the host objects with identity: the list behind a List, *)
(*                 the dict behind a Dict, host iterators                  *)
(*   stdout        what PRINT has written, in order                        *)
(*   status        "idle" before exec, "running", then "done" (exec        *)
(*                 returned result) or "error" (exec raised error)         *)
(* and the caller of exec (tests/conftest.py, tests/test_serde_roudtrip.py)*)
(*   prog, origin  the case run and whether the compiler produced its code *)
(*   code          the instruction list handed to exec                     *)
(*   serialized, decoded   what serialize(code) and deserialize(blob)       *)
(*                 returned or raised, None before the call                *)
(*   mode, run, first   "roundtrip": after the run of code on a fresh      *)
(*                 interpreter (run 1, its outcome kept in first), a fresh *)
(*                 interpreter runs deserialize(serialize(code)) (run 2)   *)
(***************************************************************************)
VARIABLES prog, origin, mode, run, first, code, serialized, decoded,
          call_stack, stack, globals, local_frames, heap, method_table,
          stdout, status, result, error, trace_hook, trace, hooked, meta_arg, peeked,
          listing

vars == <<prog, origin, mode, run, first, code, serialized, decoded,
          call_stack, stack, globals, local_frames, heap, method_table,
          stdout, status, result, error, trace_hook, trace, hooked, meta_arg, peeked,
          listing>>

\* what no instruction handler assigns (trace: the calls the hook has received)
driver == <<prog, origin, mode, run, first, code, serialized, decoded, method_table,
            trace_hook, trace, meta_arg, peeked, listing>>

\* Interpreter.push
push(stk, v) == Append(stk, v)

\* a pop that yields the Integer 0 from an empty stack
pop_zero(stk) == IF stk # <<>> THEN stk[Len(stk)] ELSE iInteger(0)

\* Interpreter.pop: the value popped (Nil from an empty stack) ...
pop(stk) == IF stk # <<>> THEN stk[Len(stk)] ELSE iNil

\* ... and the stack it leaves
popped(stk) == IF stk # <<>> THEN SubSeq(stk, 1, Len(stk) - 1) ELSE <<>>

\* the comprehension without `items.reverse()`
popn_unreversed(stk, n) ==
    [i \in 1..n |-> IF Len(stk) - i + 1 >= 1 THEN stk[Len(stk) - i + 1] ELSE iNil]

\* `[self.pop() for _ in range(n)]` reversed: the top n values in push order,
\* Nil standing for each value the stack did not hold
popn(stk, n) ==
    [i \in 1..n |-> IF Len(stk) - n + i >= 1 THEN stk[Len(stk) - n + i] ELSE iNil]

poppedn(stk, n) == IF Len(stk) > n THEN SubSeq(stk, 1, Len(stk) - n) ELSE <<>>

\* Interpreter.load_global
load_global(g, name) == IF name \in DOMAIN g THEN g[name] ELSE iNil

\* Interpreter.store_global, and a frame's `[name] = val`
store(g, name, val) == (name :> val) @@ g

\* Interpreter.push_stack_frame: {name: val for name, val in zip(arg_names, args)}
NewFrame(args, arg_names) ==
    LET m == IF Len(args) < Len(arg_names) THEN Len(args) ELSE Len(arg_names)
    IN  [name \in {arg_names[i] : i \in 1..m} |->
            args[CHOOSE i \in 1..m :
                    /\ arg_names[i] = name
                    /\ \A j \in 1..m : arg_names[j] = name => j <= i]]

(***************************************************************************)
(* Host semantics of the payloads (iObject.value()).                        *)
(***************************************************************************)
IsInt(v) == v.t = "num" /\ "n" \in DOMAIN v

IsBoolV(v) == v.t = "bool"

\* a host int or bool: bool is a subclass of int in the host
IsNumeric(v) == IsInt(v) \/ IsBoolV(v)

AsInt(v) == IF IsInt(v) THEN v.n ELSE IF v.b THEN 1 ELSE 0

\* a host str: the payload of a String, or of the Integer BIN_ADD wraps it in
IsStr(v) == v.t \in {"str", "num"} /\ "s" \in DOMAIN v

\* a host float, kept as the fraction num/den in lowest terms, den > 0
IsFloat(v) == v.t = "num" /\ "num" \in DOMAIN v

IsRange(v) == v.t = "pyobj" /\ "range" \in DOMAIN v

IsIter(v) == v.t = "pyobj" /\ "iter" \in DOMAIN v

Max(a, b) == IF a >= b THEN a ELSE b

\* bool(v.value())
truthy(v, h) ==
    CASE v.t = "nil" -> FALSE
      [] v.t = "bool" -> v.b
      [] IsInt(v) -> v.n # 0
      [] IsStr(v) -> v.s # ""
      [] IsFloat(v) -> v.num # 0
      [] v.t = "list" -> h[v.ref].items # <<>>
      [] v.t = "dict" -> h[v.ref].keys # <<>>
      [] v.t = "func" -> v.code # <<>>
      [] IsRange(v) -> v.range > 0
      [] OTHER -> TRUE

\* str(v.value()) as far as the model has it: int, bool, None, str
PyStr(v) ==
    CASE IsInt(v) -> ToString(v.n)
      [] v.t = "bool" -> IF v.b THEN "True" ELSE "False"
      [] v.t = "nil" -> "None"
      [] IsStr(v) -> v.s
      [] OTHER -> "<object>"

\* position of key k in the key list of a dict, 0 when absent
KeyPos(d, k) ==
    IF \E i \in 1..Len(d.keys) : d.keys[i] = k
    THEN CHOOSE i \in 1..Len(d.keys) : d.keys[i] = k
    ELSE 0

\* dict[k] = val: a new key goes last, an old key keeps its place
DictSet(d, k, val) ==
    IF KeyPos(d, k) = 0
    THEN [d EXCEPT !.keys = Append(@, k), !.vals = Append(@, val)]
    ELSE [d EXCEPT !.vals[KeyPos(d, k)] = val]

\* dict.get(k, iNil())
DictGet(d, k) == IF KeyPos(d, k) = 0 THEN iNil ELSE d.vals[KeyPos(d, k)]

RECURSIVE DictOf(_, _, _)
\* dict(pairs)
DictOf(d, ks, vs) ==
    IF ks = <<>> THEN d ELSE DictOf(DictSet(d, Head(ks), Head(vs)), Tail(ks), Tail(vs))

EmptyDict == [kind |-> "dict", keys |-> <<>>, vals |-> <<>>]

\* a host sequence indexed by i, negative i counting from the end:
\* the position in 1..len, 0 when i is out of range
SeqPos(len, i) ==
    IF 0 <= i /\ i < len THEN i + 1
    ELSE IF i < 0 /\ -i <= len THEN len + i + 1
    ELSE 0

RECURSIVE PyEq(_, _, _), SeqEq(_, _, _)
\* a.value() == b.value()
PyEq(a, b, h) ==
    CASE a.t = "nil" /\ b.t = "nil" -> TRUE
      [] IsNumeric(a) /\ IsNumeric(b) -> AsInt(a) = AsInt(b)
      [] IsNumeric(a) /\ IsFloat(b) -> b.den = 1 /\ b.num = AsInt(a)
      [] IsFloat(a) /\ IsNumeric(b) -> a.den = 1 /\ a.num = AsInt(b)
      [] IsFloat(a) /\ IsFloat(b) -> a.num = b.num /\ a.den = b.den
      [] IsStr(a) /\ IsStr(b) -> a.s = b.s
      [] a.t = "list" /\ b.t = "list" -> SeqEq(h[a.ref].items, h[b.ref].items, h)
      [] a.t = "dict" /\ b.t = "dict" ->
            LET da == h[a.ref]
                db == h[b.ref]
            IN  /\ Len(da.keys) = Len(db.keys)
                /\ \A i \in 1..Len(da.keys) :
                      /\ KeyPos(db, da.keys[i]) # 0
                      /\ PyEq(da.vals[i], DictGet(db, da.keys[i]), h)
      [] a.t = "func" /\ b.t = "func" -> a.code = b.code
      [] a.t = "pyfunc" /\ b.t = "pyfunc" -> a.func = b.func
      [] a.t = "method" /\ b.t = "method" ->
            PyEq(a.self_obj, b.self_obj, h) /\ PyEq(a.func, b.func, h)
      [] IsRange(a) /\ IsRange(b) -> Max(a.range, 0) = Max(b.range, 0)
      [] IsIter(a) /\ IsIter(b) -> a.iter = b.iter
      [] OTHER -> FALSE

SeqEq(xs, ys, h) ==
    /\ Len(xs) = Len(ys)
    /\ \A i \in 1..Len(xs) : PyEq(xs[i], ys[i], h)

(***************************************************************************)
(* Interpreter.exec: one action for each opcode of the dispatch.           *)
(***************************************************************************)
cur == call_stack[Len(call_stack)]

pc == cur.pc

\* `if self.trace_hook is not None` is over for this instruction
Traced == trace_hook = "None" \/ hooked

\* `while pc < len(code)` holds and `opcode, arg = code[pc]` gives op
At(op) ==
    /\ status = "running"
    /\ pc < Len(cur.code)
    /\ cur.code[pc + 1].op = op
    /\ Traced

arg == cur.code[pc + 1].arg

\* `pc = next_pc`
Goto(next_pc) == call_stack' = [call_stack EXCEPT ![Len(call_stack)].pc = next_pc]

\* an exception leaves exec, and every exec below it, through no handler
\* ("Unmodelled": the host's result is outside the model; the run is dropped)
Raise(exc) ==
    /\ status' = IF exc = "Unmodelled" THEN "unmodelled" ELSE "error"
    /\ error' = exc
    /\ hooked' = FALSE
    /\ UNCHANGED <<call_stack, result>>

\* the loop goes on: the hook has not been called for the next instruction
Running == hooked' = FALSE /\ UNCHANGED <<status, result, error>>

\* exec returns ret.  The outermost exec hands it to its caller; an exec that
\* CALL_FN started returns into that handler, which pops the frame, pushes
\* ret and goes on after the call.
Return(ret, stk) ==
    IF Len(call_stack) = 1
    THEN /\ status' = "done"
         /\ result' = ret
         /\ stack' = stk
         /\ hooked' = FALSE
         /\ UNCHANGED <<call_stack, local_frames, error>>
    ELSE /\ call_stack' = [i \in 1..(Len(call_stack) - 1) |->
                              IF i = Len(call_stack) - 1
                              THEN [call_stack[i] EXCEPT !.pc = @ + 1]
                              ELSE call_stack[i]]
         /\ local_frames' = SubSeq(local_frames, 1, Len(local_frames) - 1)
         /\ stack' = push(stk, ret)
         /\ Running

OpPUSH ==
    /\ At("PUSH")
    /\ stack' = push(stack, arg)
    /\ Goto(pc + 1)
    /\ Running
    /\ UNCHANGED <<globals, local_frames, heap, stdout, driver>>

OpSTORE ==
    /\ At("STORE")
    /\ globals' = store(globals, arg.s, pop(stack))
    /\ stack' = popped(stack)
    /\ Goto(pc + 1)
    /\ Running
    /\ UNCHANGED <<local_frames, heap, stdout, driver>>

OpPUSH_GLOBAL ==
    /\ At("PUSH_GLOBAL")
    /\ stack' = push(stack, load_global(globals, arg.s))
    /\ Goto(pc + 1)
    /\ Running
    /\ UNCHANGED <<globals, local_frames, heap, stdout, driver>>

OpPUSH_LOCAL ==
    /\ At("PUSH_LOCAL")
    /\ stack' = push(stack,
                     IF local_frames # <<>>
                        /\ arg.s \in DOMAIN local_frames[Len(local_frames)]
                     THEN local_frames[Len(local_frames)][arg.s]
                     ELSE iNil)
    /\ Goto(pc + 1)
    /\ Running
    /\ UNCHANGED <<globals, local_frames, heap, stdout, driver>>

OpSTORE_LOCAL ==
    /\ At("STORE_LOCAL")
    /\ IF local_frames = <<>>
       THEN /\ globals' = store(globals, arg.s, pop(stack))
            /\ UNCHANGED local_frames
       ELSE /\ local_frames' = [local_frames EXCEPT ![Len(local_frames)] =
                                    store(@, arg.s, pop(stack))]
            /\ UNCHANGED globals
    /\ stack' = popped(stack)
    /\ Goto(pc + 1)
    /\ Running
    /\ UNCHANGED <<heap, stdout, driver>>

\* the key of a pair: the String's text, str(...) of any other payload
DictKey(key) == IF key.t = "str" THEN key.s ELSE PyStr(key)

OpMAKE_DICT ==
    /\ At("MAKE_DICT")
    /\ LET n == arg.n
           kv == popn(stack, 2 * n)
           ks == [i \in 1..n |-> DictKey(kv[2 * i - 1])]
           vs == [i \in 1..n |-> kv[2 * i]]
       IN  /\ heap' = Append(heap, DictOf(EmptyDict, ks, vs))
           /\ stack' = push(poppedn(stack, 2 * n), iDict(Len(heap) + 1))
    /\ Goto(pc + 1)
    /\ Running
    /\ UNCHANGED <<globals, local_frames, stdout, driver>>

OpMAKE_LIST ==
    /\ At("MAKE_LIST")
    /\ heap' = Append(heap, [kind |-> "list", items |-> popn(stack, arg.n)])
    /\ stack' = push(poppedn(stack, arg.n), iList(Len(heap) + 1))
    /\ Goto(pc + 1)
    /\ Running
    /\ UNCHANGED <<globals, local_frames, stdout, driver>>

OpPOP ==
    /\ At("POP")
    /\ stack' = popped(stack)
    /\ Goto(pc + 1)
    /\ Running
    /\ UNCHANGED <<globals, local_frames, heap, stdout, driver>>

OpNOT ==
    /\ At("NOT")
    /\ stack' = push(popped(stack), iBool(~truthy(pop(stack), heap)))
    /\ Goto(pc + 1)
    /\ Running
    /\ UNCHANGED <<globals, local_frames, heap, stdout, driver>>

OpPRINT ==
    /\ At("PRINT")
    /\ stdout' = Append(stdout, pop(stack))
    /\ stack' = popped(stack)
    /\ Goto(pc + 1)
    /\ Running
    /\ UNCHANGED <<globals, local_frames, heap, driver>>

OpJUMP ==
    /\ At("JUMP")
    /\ Goto(pc + arg.n)
    /\ Running
    /\ UNCHANGED <<stack, globals, local_frames, heap, stdout, driver>>

OpJUMP_IF_TRUE ==
    /\ At("JUMP_IF_TRUE")
    /\ stack' = popped(stack)
    /\ Goto(IF truthy(pop(stack), heap) THEN pc + arg.n ELSE pc + 1)
    /\ Running
    /\ UNCHANGED <<globals, local_frames, heap, stdout, driver>>

OpJUMP_IF_FALSE ==
    /\ At("JUMP_IF_FALSE")
    /\ stack' = popped(stack)
    /\ Goto(IF ~truthy(pop(stack), heap) THEN pc + arg.n ELSE pc + 1)
    /\ Running
    /\ UNCHANGED <<globals, local_frames, heap, stdout, driver>>

\* a variant that yields the top of the stack and leaves it there
OpRETURN_peek ==
    /\ At("RETURN")
    /\ Return(pop(stack), stack)
    /\ UNCHANGED <<globals, heap, stdout, driver>>

OpRETURN ==
    /\ At("RETURN")
    /\ Return(pop(stack), popped(stack))
    /\ UNCHANGED <<globals, heap, stdout, driver>>

\* the loop ends with pc = len(code): `return iNil()`
FallOffEnd ==
    /\ status = "running"
    /\ pc >= Len(cur.code)
    /\ Return(iNil, stack)
    /\ UNCHANGED <<globals, heap, stdout, driver>>

\* the list a hook leaves behind: a hook may only read it, empty it, or
\* append to it
HookLeaves(hook, list) ==
    CASE hook = "clear" -> <<>>
      [] hook = "push" -> Append(list, iNil)
      [] OTHER -> list

\* a variant that hands the hook self.stack itself
TraceHookAlias ==
    /\ status = "running"
    /\ pc < Len(cur.code)
    /\ trace_hook # "None"
    /\ ~hooked
    /\ trace' = Append(trace, [pc |-> pc, op |-> cur.code[pc + 1].op, arg |-> arg,
                               stack |-> stack])
    /\ stack' = HookLeaves(trace_hook, stack)
    /\ hooked' = TRUE
    /\ UNCHANGED <<prog, origin, mode, run, first, code, serialized, decoded,
                   call_stack, globals, local_frames, heap, method_table, stdout,
                   status, result, error, trace_hook, meta_arg, peeked, listing>>

\* `snapshot = list(self.stack); self.trace_hook(pc, opcode, arg, snapshot)`:
\* the hook is called with a new list, which is dropped with whatever the
\* hook did to it
TraceHook ==
    /\ status = "running"
    /\ pc < Len(cur.code)
    /\ trace_hook # "None"
    /\ ~hooked
    /\ LET snapshot == stack
       IN  /\ trace' = Append(trace, [pc |-> pc, op |-> cur.code[pc + 1].op,
                                      arg |-> arg, stack |-> snapshot])
           /\ stack' = stack
    /\ hooked' = TRUE
    /\ UNCHANGED <<prog, origin, mode, run, first, code, serialized, decoded,
                   call_stack, globals, local_frames, heap, method_table, stdout,
                   status, result, error, trace_hook, meta_arg, peeked, listing>>

(***************************************************************************)
(* Host arithmetic and comparison on payloads.  A result is [ok, v] or,    *)
(* when the host raises, [ok, exc].  A host float is the exact fraction    *)
(* (rounding is not modelled); "Unmodelled" marks operand types whose host *)
(* result the model does not compute.                                      *)
(***************************************************************************)
Ok(v) == [ok |-> TRUE, v |-> v]

Exc(exc) == [ok |-> FALSE, exc |-> exc]

Abs(a) == IF a < 0 THEN -a ELSE a

RECURSIVE Gcd(_, _)
Gcd(a, b) == IF b = 0 THEN a ELSE Gcd(b, a % b)

\* iInteger(num / den) for den # 0
iIntegerFloat(num, den) ==
    LET g == Gcd(Abs(num), Abs(den))
        sg == IF den < 0 THEN -1 ELSE 1
    IN  [t |-> "num", num |-> sg * (num \div g), den |-> sg * (den \div g)]

IsReal(v) == IsNumeric(v) \/ IsFloat(v)

NumOf(v) == IF IsFloat(v) THEN v.num ELSE AsInt(v)

DenOf(v) == IF IsFloat(v) THEN v.den ELSE 1

\* the host's a % b on ints, b # 0: the sign of the result is the sign of b
PyMod(a, b) == IF b > 0 THEN a % b ELSE -((-a) % (-b))

\* rhs.value() + lhs.value(), wrapped in iInteger (BIN_ADD)
PyAdd(lhs, rhs) ==
    CASE IsNumeric(lhs) /\ IsNumeric(rhs) -> Ok(iInteger(AsInt(rhs) + AsInt(lhs)))
      [] IsReal(lhs) /\ IsReal(rhs) ->
            Ok(iIntegerFloat(NumOf(rhs) * DenOf(lhs) + NumOf(lhs) * DenOf(rhs),
                             DenOf(lhs) * DenOf(rhs)))
      [] IsStr(lhs) /\ IsStr(rhs) -> Ok(iIntegerStr(rhs.s \o lhs.s))
      [] lhs.t \in {"list", "func"} /\ rhs.t \in {"list", "func"} -> Exc("Unmodelled")
      [] OTHER -> Exc("TypeError")

\* lhs.value() - rhs.value() (BIN_SUB)
PySub(lhs, rhs) ==
    CASE IsNumeric(lhs) /\ IsNumeric(rhs) -> Ok(iInteger(AsInt(lhs) - AsInt(rhs)))
      [] IsReal(lhs) /\ IsReal(rhs) ->
            Ok(iIntegerFloat(NumOf(lhs) * DenOf(rhs) - NumOf(rhs) * DenOf(lhs),
                             DenOf(lhs) * DenOf(rhs)))
      [] OTHER -> Exc("TypeError")

RECURSIVE Repeat(_, _)
Repeat(str, n) == IF n <= 0 THEN "" ELSE str \o Repeat(str, n - 1)

\* lhs.value() * rhs.value() (BIN_MUL)
PyMul(lhs, rhs) ==
    CASE IsNumeric(lhs) /\ IsNumeric(rhs) -> Ok(iInteger(AsInt(lhs) * AsInt(rhs)))
      [] IsReal(lhs) /\ IsReal(rhs) ->
            Ok(iIntegerFloat(NumOf(lhs) * NumOf(rhs), DenOf(lhs) * DenOf(rhs)))
      [] IsStr(lhs) /\ IsNumeric(rhs) -> Ok(iIntegerStr(Repeat(lhs.s, AsInt(rhs))))
      [] IsNumeric(lhs) /\ IsStr(rhs) -> Ok(iIntegerStr(Repeat(rhs.s, AsInt(lhs))))
      [] (lhs.t \in {"list", "func"} /\ IsNumeric(rhs))
           \/ (IsNumeric(lhs) /\ rhs.t \in {"list", "func"}) -> Exc("Unmodelled")
      [] OTHER -> Exc("TypeError")

\* lhs.value() / rhs.value(): the host's true division (BIN_DIV)
PyDiv(lhs, rhs) ==
    CASE IsReal(lhs) /\ IsReal(rhs) ->
            IF NumOf(rhs) = 0 THEN Exc("ZeroDivisionError")
            ELSE Ok(iIntegerFloat(NumOf(lhs) * DenOf(rhs), DenOf(lhs) * NumOf(rhs)))
      [] OTHER -> Exc("TypeError")

\* lhs.value() % rhs.value() (BIN_MOD); on a str it is the host's formatting
PyModulo(lhs, rhs) ==
    CASE IsNumeric(lhs) /\ IsNumeric(rhs) ->
            IF AsInt(rhs) = 0 THEN Exc("ZeroDivisionError")
            ELSE Ok(iInteger(PyMod(AsInt(lhs), AsInt(rhs))))
      [] IsReal(lhs) /\ IsReal(rhs) ->
            IF NumOf(rhs) = 0 THEN Exc("ZeroDivisionError") ELSE Exc("Unmodelled")
      [] IsStr(lhs) -> Exc("Unmodelled")
      [] OTHER -> Exc("TypeError")

\* lhs.value() < rhs.value()
PyLess(lhs, rhs) ==
    CASE IsReal(lhs) /\ IsReal(rhs) ->
            Ok(NumOf(lhs) * DenOf(rhs) < NumOf(rhs) * DenOf(lhs))
      [] IsStr(lhs) /\ IsStr(rhs) -> IF lhs.s = rhs.s THEN Ok(FALSE) ELSE Exc("Unmodelled")
      [] lhs.t \in {"list", "func"} /\ rhs.t \in {"list", "func"} -> Exc("Unmodelled")
      [] OTHER -> Exc("TypeError")

\* the comparison opcodes, from < and ==: a total order within a kind
PyCompare(op, lhs, rhs, h) ==
    LET lt == PyLess(lhs, rhs)
        gt == PyLess(rhs, lhs)
    IN  CASE op = "LT" -> IF lt.ok THEN Ok(iBool(lt.v)) ELSE lt
          [] op = "GT" -> IF gt.ok THEN Ok(iBool(gt.v)) ELSE gt
          [] op = "LTE" -> IF gt.ok THEN Ok(iBool(~gt.v)) ELSE gt
          [] op = "GTE" -> IF lt.ok THEN Ok(iBool(~lt.v)) ELSE lt
          [] op = "EQ" -> Ok(iBool(PyEq(rhs, lhs, h)))
          [] op = "NEQ" -> Ok(iBool(~PyEq(rhs, lhs, h)))

BinaryResult(op, lhs, rhs, h) ==
    CASE op = "BIN_ADD" -> PyAdd(lhs, rhs)
      [] op = "BIN_SUB" -> PySub(lhs, rhs)
      [] op = "BIN_MUL" -> PyMul(lhs, rhs)
      [] op = "BIN_DIV" -> PyDiv(lhs, rhs)
      [] op = "BIN_MOD" -> PyModulo(lhs, rhs)
      [] OTHER -> PyCompare(op, lhs, rhs, h)

\* the handlers of BIN_ADD .. LTE: pop rhs, pop lhs, push the wrapped result
Binary(op) ==
    /\ At(op)
    /\ LET rhs == pop(stack)
           lhs == pop(popped(stack))
           r == BinaryResult(op, lhs, rhs, heap)
       IN  IF r.ok
           THEN /\ stack' = push(popped(popped(stack)), r.v)
                /\ Goto(pc + 1)
                /\ Running
           ELSE /\ stack' = popped(popped(stack))
                /\ Raise(r.exc)
    /\ UNCHANGED <<globals, local_frames, heap, stdout, driver>>

OpBIN_ADD == Binary("BIN_ADD")

OpBIN_SUB == Binary("BIN_SUB")

OpBIN_MUL == Binary("BIN_MUL")

OpBIN_DIV == Binary("BIN_DIV")

OpBIN_MOD == Binary("BIN_MOD")

OpEQ == Binary("EQ")

OpNEQ == Binary("NEQ")

OpGT == Binary("GT")

OpLT == Binary("LT")

OpGTE == Binary("GTE")

OpLTE == Binary("LTE")

(***************************************************************************)
(* Iteration.  iter(...) of a list, a dict or a range is a host iterator   *)
(* object on the heap: a cursor i into the list (by reference), the dict's *)
(* keys (the host raises when the dict changed size) or the range.         *)
(***************************************************************************)
OpITER_INIT ==
    /\ At("ITER_INIT")
    /\ stack' = IF pop(stack).t \in {"list", "dict"} \/ IsRange(pop(stack))
                THEN push(popped(stack), iPyIter(Len(heap) + 1))
                ELSE IF IsIter(pop(stack)) THEN stack
                ELSE popped(stack)
    /\ LET iterable == pop(stack)
       IN  CASE iterable.t = "list" ->
                    /\ heap' = Append(heap, [kind |-> "list_iterator",
                                             ref |-> iterable.ref, i |-> 0,
                                             exhausted |-> FALSE])
                    /\ Goto(pc + 1) /\ Running
             [] iterable.t = "dict" ->
                    /\ heap' = Append(heap, [kind |-> "dict_keyiterator",
                                             ref |-> iterable.ref, i |-> 0,
                                             len |-> Len(heap[iterable.ref].keys)])
                    /\ Goto(pc + 1) /\ Running
             [] IsRange(iterable) ->
                    /\ heap' = Append(heap, [kind |-> "range_iterator",
                                             n |-> iterable.range, i |-> 0])
                    /\ Goto(pc + 1) /\ Running
             [] IsIter(iterable) ->
                    /\ UNCHANGED heap
                    /\ Goto(pc + 1) /\ Running
             [] IsStr(iterable) \/ iterable.t \in {"func", "method"} ->
                    /\ UNCHANGED heap
                    /\ Raise("Unmodelled")
             [] OTHER ->
                    /\ UNCHANGED heap
                    /\ Raise("TypeError")
    /\ UNCHANGED <<globals, local_frames, stdout, driver>>

\* next(it): [ok, item, it] with the iterator as it is left, [ok |-> FALSE, exc]
\* for StopIteration and for the host's RuntimeError
IterStep(it, h) ==
    CASE it.kind = "list_iterator" ->
            IF ~it.exhausted /\ it.i < Len(h[it.ref].items)
            THEN [ok |-> TRUE, item |-> h[it.ref].items[it.i + 1],
                  it |-> [it EXCEPT !.i = @ + 1]]
            ELSE [ok |-> FALSE, exc |-> "StopIteration",
                  it |-> [it EXCEPT !.exhausted = TRUE]]
      [] it.kind = "dict_keyiterator" ->
            IF Len(h[it.ref].keys) # it.len
            THEN [ok |-> FALSE, exc |-> "RuntimeError", it |-> it]
            ELSE IF it.i < it.len
            THEN [ok |-> TRUE, item |-> iString(h[it.ref].keys[it.i + 1]),
                  it |-> [it EXCEPT !.i = @ + 1]]
            ELSE [ok |-> FALSE, exc |-> "StopIteration", it |-> it]
      [] it.kind = "range_iterator" ->
            IF it.i < it.n
            THEN [ok |-> TRUE, item |-> iInteger(it.i), it |-> [it EXCEPT !.i = @ + 1]]
            ELSE [ok |-> FALSE, exc |-> "StopIteration", it |-> it]

OpITER_NEXT ==
    /\ At("ITER_NEXT")
    /\ LET it_obj == pop(stack)
       IN  IF ~IsIter(it_obj)
           THEN /\ stack' = popped(stack)
                /\ UNCHANGED heap
                /\ Raise("TypeError")
           ELSE LET r == IterStep(heap[it_obj.iter], heap)
                IN  /\ heap' = [heap EXCEPT ![it_obj.iter] = r.it]
                    /\ IF r.ok
                       THEN /\ stack' = popped(stack) \o
                                   <<iPyIter(it_obj.iter), r.item, iBool(TRUE)>>
                            /\ Goto(pc + 1) /\ Running
                       ELSE IF r.exc = "StopIteration"
                       THEN /\ stack' = popped(stack) \o
                                   <<iPyIter(it_obj.iter), iBool(FALSE)>>
                            /\ Goto(pc + 1) /\ Running
                       ELSE /\ stack' = popped(stack)
                            /\ Raise(r.exc)
    /\ UNCHANGED <<globals, local_frames, stdout, driver>>

(***************************************************************************)
(* Membership, indexing and index assignment.                              *)
(***************************************************************************)
\* lhs.value() in rhs.value(); a host exception (an operand without
\* membership, an unhashable key) is caught by the handler and gives false
PyIn(lhs, rhs, h) ==
    CASE rhs.t = "list" -> Ok(\E i \in 1..Len(h[rhs.ref].items) :
                                  PyEq(h[rhs.ref].items[i], lhs, h))
      [] rhs.t = "dict" -> Ok(IsStr(lhs) /\ KeyPos(h[rhs.ref], lhs.s) # 0)
      [] IsRange(rhs) ->
            Ok(/\ IsReal(lhs) /\ DenOf(lhs) = 1
               /\ 0 <= NumOf(lhs) /\ NumOf(lhs) < rhs.range)
      [] IsStr(rhs) ->
            IF ~IsStr(lhs) THEN Ok(FALSE)
            ELSE IF lhs.s = "" \/ lhs.s = rhs.s THEN Ok(TRUE)
            ELSE IF Len(lhs.s) >= Len(rhs.s) THEN Ok(FALSE)
            ELSE Exc("Unmodelled")
      [] rhs.t = "method" -> Ok(PyEq(rhs.self_obj, lhs, h) \/ PyEq(rhs.func, lhs, h))
      [] rhs.t = "func" \/ IsIter(rhs) -> Exc("Unmodelled")
      [] OTHER -> Ok(FALSE)

OpBIN_IN ==
    /\ At("BIN_IN")
    /\ LET rhs == pop(stack)
           lhs == pop(popped(stack))
           r == PyIn(lhs, rhs, heap)
       IN  IF r.ok
           THEN /\ stack' = push(popped(popped(stack)), iBool(r.v))
                /\ Goto(pc + 1) /\ Running
           ELSE /\ stack' = popped(popped(stack))
                /\ Raise(r.exc)
    /\ UNCHANGED <<globals, local_frames, heap, stdout, driver>>

\* a variant without the handler: the host's exception leaves exec
HostIndexRaises(container, key, h) == Exc("TypeError")

\* the `case _` of INDEX: to_iobj(cval[kval]), Nil when the host raises
HostIndex(container, key, h) ==
    CASE container.t = "list" /\ IsBoolV(key) ->
            Ok(IF SeqPos(Len(h[container.ref].items), AsInt(key)) # 0
               THEN h[container.ref].items[SeqPos(Len(h[container.ref].items),
                                                  AsInt(key))]
               ELSE iNil)
      [] IsRange(container) /\ IsNumeric(key) ->
            Ok(IF SeqPos(Max(container.range, 0), AsInt(key)) # 0
               THEN iInteger(SeqPos(Max(container.range, 0), AsInt(key)) - 1)
               ELSE iNil)
      [] container.t = "method" /\ IsNumeric(key) ->
            Ok(IF SeqPos(2, AsInt(key)) = 1 THEN container.self_obj
               ELSE IF SeqPos(2, AsInt(key)) = 2 THEN container.func
               ELSE iNil)
      [] IsStr(container) /\ IsNumeric(key) ->
            IF SeqPos(Len(container.s), AsInt(key)) = 0 THEN Ok(iNil)
            ELSE Exc("Unmodelled")
      [] container.t = "func" /\ IsNumeric(key) ->
            IF SeqPos(Len(container.code), AsInt(key)) = 0 THEN Ok(iNil)
            ELSE Exc("Unmodelled")
      [] OTHER -> Ok(iNil)

\* the match of INDEX on (container, key)
IndexResult(container, key, h) ==
    CASE container.t = "list" /\ key.t = "num" ->
            Ok(IF IsInt(key) /\ SeqPos(Len(h[container.ref].items), key.n) # 0
               THEN h[container.ref].items[SeqPos(Len(h[container.ref].items), key.n)]
               ELSE iNil)
      [] container.t = "dict" /\ key.t = "str" -> Ok(DictGet(h[container.ref], key.s))
      \* `str(kval, iNil())`: the host's str() of two arguments raises
      [] container.t = "dict" -> Exc("TypeError")
      [] OTHER -> HostIndex(container, key, h)

OpINDEX ==
    /\ At("INDEX")
    /\ LET key == pop(stack)
           container == pop(popped(stack))
           r == IndexResult(container, key, heap)
       IN  IF r.ok
           THEN /\ stack' = push(popped(popped(stack)), r.v)
                /\ Goto(pc + 1) /\ Running
           ELSE /\ stack' = popped(popped(stack))
                /\ Raise(r.exc)
    /\ UNCHANGED <<globals, local_frames, heap, stdout, driver>>

\* the heap after container[key] = val, by the match of SET_INDEX; a host
\* exception is caught by the handler and leaves the heap as it is
SetIndexHeap(container, key, val, h) ==
    CASE container.t = "list" /\ key.t = "num" ->
            IF IsInt(key) /\ SeqPos(Len(h[container.ref].items), key.n) # 0
            THEN [h EXCEPT ![container.ref].items[
                               SeqPos(Len(h[container.ref].items), key.n)] = val]
            ELSE h
      [] container.t = "dict" ->
            [h EXCEPT ![container.ref] = DictSet(@, PyStr(key), val)]
      [] container.t = "list" /\ IsBoolV(key) ->
            IF SeqPos(Len(h[container.ref].items), AsInt(key)) # 0
            THEN [h EXCEPT ![container.ref].items[
                               SeqPos(Len(h[container.ref].items), AsInt(key))] = val]
            ELSE h
      [] OTHER -> h

OpSET_INDEX ==
    /\ At("SET_INDEX")
    /\ LET val == pop(stack)
           key == pop(popped(stack))
           container == pop(popped(popped(stack)))
       IN  /\ stack' = popped(popped(popped(stack)))
           /\ IF container.t = "func" /\ IsNumeric(key)
              THEN UNCHANGED heap /\ Raise("Unmodelled")
              ELSE /\ heap' = SetIndexHeap(container, key, val, heap)
                   /\ Goto(pc + 1) /\ Running
    /\ UNCHANGED <<globals, local_frames, stdout, driver>>

OpSET_ATTR ==
    /\ At("SET_ATTR")
    /\ Raise("NotImplementedError")
    /\ UNCHANGED <<stack, globals, local_frames, heap, stdout, driver>>

(***************************************************************************)
(* Native functions (stdlib.py), named by the host callable.               *)
(* A result is [ok, v, h] (the value returned and the heap it leaves) or   *)
(* [ok |-> FALSE, exc].                                                    *)
(***************************************************************************)
OkH(v, h) == [ok |-> TRUE, v |-> v, h |-> h]

RECURSIVE Join(_, _, _)
\* sep.join(texts)
Join(sep, texts, i) ==
    IF i > Len(texts) THEN ""
    ELSE IF i = Len(texts) THEN texts[i].s
    ELSE texts[i].s \o sep \o Join(sep, texts, i + 1)

CallNative(func, args, h) ==
    CASE func = "range_fn" ->
            IF IsNumeric(args[1]) THEN OkH(iPyRange(AsInt(args[1])), h)
            ELSE Exc("TypeError")
      [] func = "len_fn" ->
            CASE args[1].t = "list" -> OkH(iInteger(Len(h[args[1].ref].items)), h)
              [] args[1].t = "dict" -> OkH(iInteger(Len(h[args[1].ref].keys)), h)
              [] IsStr(args[1]) -> OkH(iInteger(Len(args[1].s)), h)
              [] args[1].t = "func" -> OkH(iInteger(Len(args[1].code)), h)
              [] args[1].t = "method" -> OkH(iInteger(2), h)
              [] IsRange(args[1]) -> OkH(iInteger(Max(args[1].range, 0)), h)
              [] OTHER -> Exc("TypeError")
      [] func = "_list_append" ->
            IF args[1].t # "list" THEN Exc("AssertionError")
            ELSE OkH(args[1], [h EXCEPT ![args[1].ref].items = Append(@, args[2])])
      [] func = "list_pop" ->
            CASE args[1].t = "list" ->
                    IF h[args[1].ref].items = <<>> THEN Exc("IndexError")
                    ELSE OkH(h[args[1].ref].items[Len(h[args[1].ref].items)],
                             [h EXCEPT ![args[1].ref].items =
                                           SubSeq(@, 1, Len(@) - 1)])
              [] args[1].t = "func" -> Exc("Unmodelled")
              [] OTHER -> Exc("TypeError")
      [] func = "__str_join" ->
            IF /\ IsStr(args[1])
               /\ args[2].t = "list"
               /\ \A i \in 1..Len(h[args[2].ref].items) : IsStr(h[args[2].ref].items[i])
            THEN OkH(iString(Join(args[1].s, h[args[2].ref].items, 1)), h)
            ELSE Exc("TypeError")
      [] OTHER -> Exc("Unmodelled")

(***************************************************************************)
(* CALL_FN.                                                                *)
(***************************************************************************)
\* a variant that passes self last
BoundArgsSelfLast(callee, args) == args \o <<callee.self_obj>>

\* a bound method passes self: `args = [callee.self_obj] + args`
BoundArgs(callee, args) == <<callee.self_obj>> \o args

\* ... and `n += 1`
BoundCount(n) == n + 1

\* a variant that accepts a call with fewer arguments than parameters
FunctionArityAtMost(callee, n) == callee.n_params >= n

\* `callee.n_params.value() != n` raises, for a Function
FunctionArityOk(callee, n) == callee.n_params = n

\* `callee.n_params.value() != n` raises, for a native function
NativeArityOk(callee, n) == callee.n_params = n

OpCALL_FN ==
    /\ At("CALL_FN")
    /\ LET n0 == arg.n
           args0 == popn(stack, n0)
           callee0 == pop(poppedn(stack, n0))
           stk == popped(poppedn(stack, n0))
           bound == callee0.t = "method"
           args == IF bound THEN BoundArgs(callee0, args0) ELSE args0
           n == IF bound THEN BoundCount(n0) ELSE n0
           callee == IF bound THEN callee0.func ELSE callee0
       IN  CASE callee.t = "func" ->
                    IF ~FunctionArityOk(callee, n)
                    THEN /\ stack' = stk
                         /\ Raise("RuntimeError: arity mismatch")
                         /\ UNCHANGED <<local_frames, heap>>
                    ELSE /\ local_frames' =
                               Append(local_frames, NewFrame(args, callee.param_names))
                         /\ call_stack' =
                               Append(call_stack, [code |-> callee.code, pc |-> 0])
                         /\ stack' = stk
                         /\ Running
                         /\ UNCHANGED heap
             [] callee.t = "pyfunc" ->
                    IF ~NativeArityOk(callee, n)
                    THEN /\ stack' = stk
                         /\ Raise("RuntimeError: arity mismatch")
                         /\ UNCHANGED <<local_frames, heap>>
                    ELSE LET r == CallNative(callee.func, args, heap)
                         IN  IF r.ok
                             THEN /\ stack' = push(stk, r.v)
                                  /\ heap' = r.h
                                  /\ Goto(pc + 1) /\ Running
                                  /\ UNCHANGED local_frames
                             ELSE /\ stack' = stk
                                  /\ Raise(r.exc)
                                  /\ UNCHANGED <<local_frames, heap>>
             [] callee.t = "pyobj" ->
                    /\ stack' = stk
                    /\ Raise("NotImplementedError")
                    /\ UNCHANGED <<local_frames, heap>>
             \* no case of the match applies: the handler does nothing more
             [] OTHER ->
                    /\ stack' = stk
                    /\ Goto(pc + 1) /\ Running
                    /\ UNCHANGED <<local_frames, heap>>
    /\ UNCHANGED <<globals, stdout, driver>>

(***************************************************************************)
(* GETATTR and the method table.                                           *)
(***************************************************************************)
\* type(obj).__mro__, obj unwrapped when it is an iPyObject
Mro(v) ==
    CASE v.t = "nil" -> <<"iNil", "iObject", "ABC", "object">>
      [] v.t = "num" -> <<"iInteger", "iObject", "ABC", "object">>
      [] v.t = "bool" -> <<"iBool", "iObject", "ABC", "object">>
      [] v.t = "str" -> <<"iString", "iObject", "ABC", "object">>
      [] v.t = "func" -> <<"iFunction", "iObject", "ABC", "object">>
      [] v.t = "pyfunc" -> <<"iPyfunction", "iObject", "ABC", "object">>
      [] v.t = "method" -> <<"iBoundMethod", "iObject", "ABC", "object">>
      [] v.t = "list" -> <<"iList", "iObject", "ABC", "object">>
      [] v.t = "dict" -> <<"iDict", "iObject", "ABC", "object">>
      [] IsRange(v) -> <<"range", "object">>
      [] OTHER -> <<"iterator", "object">>

\* a variant in which the last match of the walk wins
resolve_method_last(table, obj, name) ==
    LET mro == Mro(obj)
        hits == {i \in 1..Len(mro) :
                    mro[i] \in DOMAIN table /\ name \in DOMAIN table[mro[i]]}
    IN  IF hits = {} THEN None
        ELSE table[mro[CHOOSE i \in hits : \A j \in hits : i >= j]][name]

\* Interpreter.resolve_method: walk the MRO, first match wins
resolve_method(table, obj, name) ==
    LET mro == Mro(obj)
        hits == {i \in 1..Len(mro) :
                    mro[i] \in DOMAIN table /\ name \in DOMAIN table[mro[i]]}
    IN  IF hits = {} THEN None
        ELSE table[mro[CHOOSE i \in hits : \A j \in hits : i <= j]][name]

\* to_iobj(getattr(target, name)), target the object behind an iPyObject and
\* the iObject itself otherwise; Nil when the host raises AttributeError
HostAttr(obj, name) ==
    CASE name = "val" /\ IsInt(obj) -> iInteger(obj.n)
      [] name = "val" /\ IsStr(obj) -> iString(obj.s)
      [] name = "val" /\ obj.t = "bool" -> obj
      [] name = "val" /\ IsFloat(obj) -> iPyHost(obj, name)
      [] name = "n_params" /\ obj.t \in {"func", "pyfunc"} -> iInteger(obj.n_params)
      [] name = "n_params" /\ obj.t = "method" -> iInteger(obj.func.n_params)
      [] name = "self_obj" /\ obj.t = "method" -> obj.self_obj
      [] name = "func" /\ obj.t = "method" -> obj.func
      [] name \in {"func", "call"} /\ obj.t = "pyfunc" -> iPyHost(obj, name)
      [] name \in {"code", "param_names"} /\ obj.t = "func" -> iPyHost(obj, name)
      [] name = "items" /\ obj.t \in {"list", "dict"} -> iPyHost(obj, name)
      [] name = "fmt" /\ obj.t = "str" -> iPyHost(obj, name)
      [] name \in {"type", "value"} /\ obj.t # "pyobj" -> iPyHost(obj, name)
      [] name = "start" /\ IsRange(obj) -> iInteger(0)
      [] name = "stop" /\ IsRange(obj) -> iInteger(obj.range)
      [] name = "step" /\ IsRange(obj) -> iInteger(1)
      [] name \in {"count", "index"} /\ IsRange(obj) -> iPyHost(obj, name)
      [] OTHER -> iNil

OpGETATTR ==
    /\ At("GETATTR")
    /\ LET obj == pop(stack)
           meth == resolve_method(method_table, obj, arg.s)
       IN  IF meth # None
           THEN /\ stack' = push(popped(stack), iBoundMethod(meth, obj))
                /\ Goto(pc + 1) /\ Running
           ELSE /\ stack' = push(popped(stack), HostAttr(obj, arg.s))
                /\ Goto(pc + 1) /\ Running
    /\ UNCHANGED <<globals, local_frames, heap, stdout, driver>>

\* the legacy GETITEM: the key is the global named by the argument
OpGETITEM ==
    /\ At("GETITEM")
    /\ LET container == pop(stack)
           key_obj == load_global(globals, arg.s)
       IN  IF container.t = "list" /\ key_obj.t = "num"
           THEN /\ stack' = push(popped(stack),
                                 IF IsInt(key_obj)
                                    /\ SeqPos(Len(heap[container.ref].items), key_obj.n) # 0
                                 THEN heap[container.ref].items[
                                          SeqPos(Len(heap[container.ref].items), key_obj.n)]
                                 ELSE iNil)
                /\ Goto(pc + 1) /\ Running
           ELSE IF container.t = "dict" /\ IsStr(key_obj)
                   /\ KeyPos(heap[container.ref], key_obj.s) # 0
           THEN /\ stack' = push(popped(stack),
                                 [t |-> "pyobj",
                                  obj |-> DictGet(heap[container.ref], key_obj.s)])
                /\ Goto(pc + 1) /\ Running
           ELSE IF container.t \in {"nil", "bool", "pyfunc", "dict"} \/ IsInt(container)
           THEN /\ stack' = push(popped(stack), iNil)
                /\ Goto(pc + 1) /\ Running
           ELSE /\ stack' = popped(stack)
                /\ Raise("Unmodelled")
    /\ UNCHANGED <<globals, local_frames, heap, stdout, driver>>

\* the opcodes the dispatch has a case for
Handled ==
    {"PUSH", "STORE", "PUSH_GLOBAL", "PUSH_LOCAL", "STORE_LOCAL", "MAKE_DICT",
     "MAKE_LIST", "POP", "NOT", "ITER_INIT", "ITER_NEXT", "BIN_ADD", "BIN_SUB",
     "BIN_MUL", "BIN_DIV", "BIN_MOD", "EQ", "NEQ", "GT", "LT", "GTE", "LTE",
     "CALL_FN", "GETATTR", "GETITEM", "BIN_IN", "PRINT", "JUMP", "JUMP_IF_TRUE",
     "JUMP_IF_FALSE", "INDEX", "SET_INDEX", "SET_ATTR", "RETURN"}

\* `case _`: Opcode.CALL has no handler
Unhandled ==
    /\ status = "running"
    /\ pc < Len(cur.code)
    /\ cur.code[pc + 1].op \notin Handled
    /\ Traced
    /\ Raise("RuntimeError: Unhandled opcode")
    /\ UNCHANGED <<stack, globals, local_frames, heap, stdout, driver>>

(***************************************************************************)
(* The serializer (serde.py).  Bytes are numbers in 0..255; a decoder      *)
(* returns [ok, v, i] (the value and the index after it) or, when it       *)
(* raises, [ok |-> FALSE, exc].                                            *)
(***************************************************************************)
MAGIC == <<80, 80, 66, 67>>

VERSION == 1

TAG_NIL == 0

TAG_INT == 1

TAG_BOOL == 2

TAG_STR == 3

TAG_FUNC == 4

OPCODE_TO_BYTE ==
    [BIN_ADD |-> 1, BIN_SUB |-> 2, BIN_MUL |-> 3, BIN_DIV |-> 4, BIN_MOD |-> 5,
     BIN_IN |-> 6, EQ |-> 16, NEQ |-> 17, GT |-> 18, LT |-> 19, GTE |-> 20,
     LTE |-> 21, NOT |-> 22, PUSH |-> 32, POP |-> 33, STORE |-> 34,
     PUSH_GLOBAL |-> 35, PUSH_LOCAL |-> 36, STORE_LOCAL |-> 37, CALL_FN |-> 48,
     RETURN |-> 49, GETATTR |-> 64, GETITEM |-> 65, INDEX |-> 66, SET_INDEX |-> 67,
     SET_ATTR |-> 68, MAKE_LIST |-> 80, MAKE_DICT |-> 81, ITER_INIT |-> 96,
     ITER_NEXT |-> 97, JUMP |-> 112, JUMP_IF_TRUE |-> 113, JUMP_IF_FALSE |-> 114,
     PRINT |-> 128]

\* BYTE_TO_OPCODE = {v: k for k, v in OPCODE_TO_BYTE.items()}
BYTE_TO_OPCODE(opb) == CHOOSE op \in DOMAIN OPCODE_TO_BYTE : OPCODE_TO_BYTE[op] = opb

KnownOpcodeByte(opb) == \E op \in DOMAIN OPCODE_TO_BYTE : OPCODE_TO_BYTE[op] = opb

OkAt(v, i) == [ok |-> TRUE, v |-> v, i |-> i]

\* buf[a:b], 0-based, clamped to the buffer as the host clamps a slice
Slice(buf, a, b) ==
    LET hi == IF b > Len(buf) THEN Len(buf) ELSE b
    IN  IF a >= hi THEN <<>> ELSE SubSeq(buf, a + 1, hi)

RECURSIVE _uvar(_)
\* n >= 0; the caller raises ValueError for n < 0
_uvar(n) == IF n \div 128 # 0 THEN <<(n % 128) + 128>> \o _uvar(n \div 128) ELSE <<n % 128>>

RECURSIVE ReadUvar(_, _, _, _)
\* the loop of _read_uvar; weight is 2^shift
ReadUvar(buf, i, weight, out) ==
    IF i >= Len(buf) THEN Exc("IndexError")
    ELSE LET b == buf[i + 1]
         IN  IF b < 128 THEN OkAt(out + (b % 128) * weight, i + 1)
             ELSE ReadUvar(buf, i + 1, weight * 128, out + (b % 128) * weight)

_read_uvar(buf, i) == ReadUvar(buf, i, 1, 0)

\* a variant that drops the sign
ZigzagUnsigned(n) == 2 * Abs(n)

_zigzag(n) == IF n >= 0 THEN 2 * n ELSE 2 * (-n) - 1

\* a variant that reads every number as non-negative
UnzagUnsigned(n) == n \div 2

_unzag(n) == IF n % 2 = 0 THEN n \div 2 ELSE -((n \div 2) + 1)

\* str.encode("utf-8") of the strings of the programs: the text and its bytes
Utf8Pairs ==
    <<<<"", <<>>>>, <<"%s %s %d", <<37,115,32,37,115,32,37,100>>>>,
      <<"%s, %s", <<37,115,44,32,37,115>>>>, <<",", <<44>>>>, <<"1", <<49>>>>,
      <<"2", <<50>>>>, <<"__list_each", <<95,95,108,105,115,116,95,101,97,99,104>>>>,
      <<"__list_filter", <<95,95,108,105,115,116,95,102,105,108,116,101,114>>>>,
      <<"__list_map", <<95,95,108,105,115,116,95,109,97,112>>>>, <<"a", <<97>>>>,
      <<"add", <<97,100,100>>>>, <<"admin", <<97,100,109,105,110>>>>,
      <<"after", <<97,102,116,101,114>>>>, <<"age", <<97,103,101>>>>,
      <<"alice", <<97,108,105,99,101>>>>, <<"append", <<97,112,112,101,110,100>>>>,
      <<"b", <<98>>>>, <<"before", <<98,101,102,111,114,101>>>>,
      <<"bob", <<98,111,98>>>>, <<"callee", <<99,97,108,108,101,101>>>>,
      <<"cond", <<99,111,110,100>>>>, <<"d", <<100>>>>, <<"each", <<101,97,99,104>>>>,
      <<"f", <<102>>>>, <<"fmt", <<102,109,116>>>>,
      <<"greet", <<103,114,101,101,116>>>>, <<"hello", <<104,101,108,108,111>>>>,
      <<"hi", <<104,105>>>>, <<"hi admin", <<104,105,32,97,100,109,105,110>>>>,
      <<"hi user", <<104,105,32,117,115,101,114>>>>, <<"i", <<105>>>>,
      <<"join", <<106,111,105,110>>>>, <<"k", <<107>>>>, <<"l", <<108>>>>,
      <<"lead", <<108,101,97,100>>>>, <<"len", <<108,101,110>>>>, <<"m", <<109>>>>,
      <<"map", <<109,97,112>>>>, <<"mk", <<109,107>>>>, <<"n", <<110>>>>,
      <<"name", <<110,97,109,101>>>>, <<"one", <<111,110,101>>>>,
      <<"outer", <<111,117,116,101,114>>>>, <<"policy", <<112,111,108,105,99,121>>>>,
      <<"pop", <<112,111,112>>>>, <<"r", <<114>>>>,
      <<"range", <<114,97,110,103,101>>>>, <<"ret", <<114,101,116>>>>,
      <<"role", <<114,111,108,101>>>>, <<"root", <<114,111,111,116>>>>,
      <<"s", <<115>>>>, <<"set", <<115,101,116>>>>, <<"t", <<116>>>>,
      <<"team", <<116,101,97,109>>>>, <<"three", <<116,104,114,101,101>>>>,
      <<"two", <<116,119,111>>>>, <<"u", <<117>>>>, <<"user", <<117,115,101,114>>>>,
      <<"world", <<119,111,114,108,100>>>>, <<"x", <<120>>>>, <<"xs", <<120,115>>>>,
      <<"y", <<121>>>>, <<"ys", <<121,115>>>>, <<"z", <<122>>>>, <<"zz", <<122,122>>>>,
      <<"run", <<114,117,110>>>>,
      <<"g", <<103>>>>,
      <<"c", <<99>>>>,
      <<"e", <<101>>>>,
      <<"h", <<104>>>>,
      <<"p", <<112>>>>,
      <<"q", <<113>>>>,
      <<"v", <<118>>>>,
      <<"w", <<119>>>>,
      <<"acc", <<97,99,99>>>>,
      <<"then", <<116,104,101,110>>>>,
      <<"else", <<101,108,115,101>>>>,
      <<"elif", <<101,108,105,102>>>>,
      <<"tail", <<116,97,105,108>>>>,
      <<"loop", <<108,111,111,112>>>>,
      <<"done", <<100,111,110,101>>>>,
      <<"c1", <<99,49>>>>,
      <<"c2", <<99,50>>>>,
      <<"c3", <<99,51>>>>,
      <<"0", <<48>>>>,
      <<"3", <<51>>>>,
      <<"item", <<105,116,101,109>>>>,
      <<"no", <<110,111>>>>,
      <<"yes", <<121,101,115>>>>,
      <<"key", <<107,101,121>>>>,
      <<"val", <<118,97,108>>>>,
      <<"count", <<99,111,117,110,116>>>>,
      <<"out", <<111,117,116>>>>,
      <<"in", <<105,110>>>>,
      <<"left", <<108,101,102,116>>>>,
      <<"sum", <<115,117,109>>>>,
      <<"stop", <<115,116,111,112>>>>,
      <<"n_params", <<110,95,112,97,114,97,109,115>>>>,
      <<"value", <<118,97,108,117,101>>>>,
      <<"items", <<105,116,101,109,115>>>>,
      <<"keys", <<107,101,121,115>>>>,
      <<"func", <<102,117,110,99>>>>,
      <<"o", <<111>>>>,
      <<"self_obj", <<115,101,108,102,95,111,98,106>>>>,
      <<"sub", <<115,117,98>>>>,
      <<"fact", <<102,97,99,116>>>>,
      <<"é", <<195,169>>>>>>

Utf8Table ==
    [str \in {Utf8Pairs[i][1] : i \in 1..Len(Utf8Pairs)} |->
        Utf8Pairs[CHOOSE i \in 1..Len(Utf8Pairs) : Utf8Pairs[i][1] = str][2]]

\* str.encode("utf-8")
Encode(str) == Utf8Table[str]

\* bytes.decode("utf-8"): the text with these bytes
Decode(bytes) ==
    IF \E str \in DOMAIN Utf8Table : Utf8Table[str] = bytes
    THEN Ok(CHOOSE str \in DOMAIN Utf8Table : Utf8Table[str] = bytes)
    ELSE Exc("Unmodelled")

_enc_str(str) == _uvar(Len(Encode(str))) \o Encode(str)

_dec_str(buf, i) ==
    LET ln == _read_uvar(buf, i)
    IN  IF ~ln.ok THEN ln
        ELSE IF ln.i + ln.v > Len(buf) THEN Exc("ValueError: string length out of range")
        ELSE LET str == Decode(Slice(buf, ln.i, ln.i + ln.v))
             IN  IF ~str.ok THEN str ELSE OkAt(str.v, ln.i + ln.v)

_enc_int(n) == _uvar(_zigzag(n))

_dec_int(buf, i) ==
    LET r == _read_uvar(buf, i)
    IN  IF ~r.ok THEN r ELSE OkAt(_unzag(r.v), r.i)

RECURSIVE EncNames(_, _)
\* `for name in arg.param_names: payload += _enc_str(name)`
EncNames(names, i) ==
    IF i > Len(names) THEN <<>> ELSE _enc_str(names[i]) \o EncNames(names, i + 1)

RECURSIVE _enc_arg(_), EncStream(_, _, _)
\* a variant that writes the Nil tag for a variant it has no tag for
_enc_arg_lenient(a) ==
    IF a = None \/ a.t = "nil" THEN Ok(<<TAG_NIL>>)
    ELSE CASE a.t = "num" /\ IsInt(a) -> Ok(<<TAG_INT>> \o _enc_int(a.n))
           [] a.t = "bool" -> Ok(<<TAG_BOOL, IF a.b THEN 1 ELSE 0>>)
           [] a.t = "str" -> Ok(<<TAG_STR>> \o _enc_str(a.s))
           [] a.t = "func" ->
                 LET nested == EncStream(a.code, 1, Len(a.code))
                 IN  IF ~nested.ok THEN nested
                     ELSE Ok(<<TAG_FUNC>> \o _uvar(a.n_params)
                             \o EncNames(a.param_names, 1)
                             \o _uvar(Len(nested.v)) \o nested.v)
           [] OTHER -> Ok(<<TAG_NIL>>)

_enc_arg(a) ==
    IF a = None \/ a.t = "nil" THEN Ok(<<TAG_NIL>>)
    ELSE CASE a.t = "num" ->
                 IF IsInt(a) THEN Ok(<<TAG_INT>> \o _enc_int(a.n))
                 ELSE IF IsFloat(a)
                 \* int() of a host float truncates toward zero
                 THEN Ok(<<TAG_INT>> \o _enc_int(IF a.num >= 0 THEN a.num \div a.den
                                                 ELSE -((-a.num) \div a.den)))
                 ELSE Exc("Unmodelled")
           [] a.t = "bool" -> Ok(<<TAG_BOOL, IF a.b THEN 1 ELSE 0>>)
           [] a.t = "str" -> Ok(<<TAG_STR>> \o _enc_str(a.s))
           [] a.t = "func" ->
                 IF a.n_params < 0 THEN Exc("ValueError: uvar expects non-negative")
                 ELSE LET nested == EncStream(a.code, 1, Len(a.code))
                      IN  IF ~nested.ok THEN nested
                          ELSE Ok(<<TAG_FUNC>> \o _uvar(a.n_params)
                                  \o EncNames(a.param_names, 1)
                                  \o _uvar(Len(nested.v)) \o nested.v)
           [] OTHER -> Exc("TypeError: Cannot serialize arg type")

\* the loop of _enc_stream over instrs[lo..hi], taken in two halves; the
\* first instruction that cannot be encoded raises
EncStream(instrs, lo, hi) ==
    IF lo > hi THEN Ok(<<>>)
    ELSE IF lo = hi
    THEN IF instrs[lo].op \notin DOMAIN OPCODE_TO_BYTE THEN Exc("ValueError: Unknown opcode")
         ELSE LET a == _enc_arg(instrs[lo].arg)
              IN  IF ~a.ok THEN a ELSE Ok(<<OPCODE_TO_BYTE[instrs[lo].op]>> \o a.v)
    ELSE LET left == EncStream(instrs, lo, (lo + hi) \div 2)
             right == EncStream(instrs, ((lo + hi) \div 2) + 1, hi)
         IN  IF ~left.ok THEN left
             ELSE IF ~right.ok THEN right
             ELSE Ok(left.v \o right.v)

_enc_stream(instrs) == EncStream(instrs, 1, Len(instrs))

RECURSIVE DecNames(_, _, _, _)
\* `for _ in range(n_params): s, i = _dec_str(buf, i); param_names.append(s)`
DecNames(buf, i, k, names) ==
    IF k = 0 THEN OkAt(names, i)
    ELSE LET str == _dec_str(buf, i)
         IN  IF ~str.ok THEN str ELSE DecNames(buf, str.i, k - 1, Append(names, str.v))

RECURSIVE _dec_arg(_, _), DecStream(_, _, _)

\* `return _iInteger(val), i`
DecInteger(r) == IF ~r.ok THEN r ELSE OkAt(iInteger(r.v), r.i)

\* `return _iString(s), i`
DecString(r) == IF ~r.ok THEN r ELSE OkAt(iString(r.v), r.i)

\* `fn = _iFunction(nested_code, _iInteger(n_params), param_names); return fn, i`
DecFunction(n_params, param_names, i, nested_code) ==
    IF ~nested_code.ok THEN nested_code
    ELSE OkAt(iFunction(nested_code.v, n_params, param_names), i)

\* the body of a Function: `sub = buf[i:i+blob_len]`, decoded as a stream
DecBody(buf, n_params, param_names, blob_len) ==
    IF ~blob_len.ok THEN blob_len
    ELSE IF blob_len.i + blob_len.v > Len(buf)
    THEN Exc("ValueError: function blob length out of range")
    ELSE DecFunction(n_params, param_names, blob_len.i + blob_len.v,
                     DecStream(Slice(buf, blob_len.i, blob_len.i + blob_len.v),
                               0, blob_len.v))

\* `blob_len, i = _read_uvar(buf, i)` after the names
DecBlobLen(buf, n_params, names) ==
    IF ~names.ok THEN names
    ELSE DecBody(buf, n_params, names.v, _read_uvar(buf, names.i))

\* the names that follow the arity
DecParams(buf, n_params) ==
    IF ~n_params.ok THEN n_params
    ELSE DecBlobLen(buf, n_params.v, DecNames(buf, n_params.i, n_params.v, <<>>))

\* a variant that reads an unknown tag as Nil
DecTaggedLenient(buf, tag, j) ==
    CASE tag = TAG_INT -> DecInteger(_dec_int(buf, j))
      [] tag = TAG_BOOL ->
            IF j >= Len(buf) THEN Exc("IndexError")
            ELSE OkAt(iBool(buf[j + 1] # 0), j + 1)
      [] tag = TAG_STR -> DecString(_dec_str(buf, j))
      [] tag = TAG_FUNC -> DecParams(buf, _read_uvar(buf, j))
      [] OTHER -> OkAt(iNil, j)

\* the argument whose tag byte is buf[i] (j the offset after the tag)
DecTagged(buf, tag, j) ==
    CASE tag = TAG_NIL -> OkAt(iNil, j)
      [] tag = TAG_INT -> DecInteger(_dec_int(buf, j))
      [] tag = TAG_BOOL ->
            IF j >= Len(buf) THEN Exc("IndexError")
            ELSE OkAt(iBool(buf[j + 1] # 0), j + 1)
      [] tag = TAG_STR -> DecString(_dec_str(buf, j))
      [] tag = TAG_FUNC -> DecParams(buf, _read_uvar(buf, j))
      [] OTHER -> Exc("ValueError: Unknown arg tag")

_dec_arg(buf, i) ==
    IF i >= Len(buf) THEN Exc("IndexError") ELSE DecTagged(buf, buf[i + 1], i + 1)

\* `code.append((op, arg))`
DecInstruction(op, a) ==
    IF ~a.ok THEN a ELSE OkAt(<<Instruction(op, a.v)>>, a.i)

\* the instructions of the first and of the second half of the iterations
DecJoin(left, right) ==
    IF ~right.ok THEN right ELSE OkAt(left.v \o right.v, right.i)

DecRight(buf, k, left) ==
    IF ~left.ok THEN left ELSE DecJoin(left, DecStream(buf, left.i, k))

\* at most k iterations of the loop of _dec_stream from offset i, taken in
\* two halves: [ok, v (the instructions decoded), i (the offset reached)]
DecStream(buf, i, k) ==
    IF i >= Len(buf) \/ k = 0 THEN OkAt(<<>>, i)
    ELSE IF k = 1
    THEN IF ~KnownOpcodeByte(buf[i + 1]) THEN Exc("ValueError: Unknown opcode byte")
         ELSE DecInstruction(BYTE_TO_OPCODE(buf[i + 1]), _dec_arg(buf, i + 1))
    ELSE DecRight(buf, k - (k \div 2), DecStream(buf, i, k \div 2))

\* every iteration reads at least one byte: Len(buf) iterations end the loop
_dec_stream(buf, i0) == DecStream(buf, i0, Len(buf))

(***************************************************************************)
(* The container (_pack, _unpack).  zlib.crc32 is computed bit by bit on   *)
(* 32-bit words held as their two 16-bit halves.                            *)
(***************************************************************************)
Half == 65536

RECURSIVE Xor(_, _)
\* a ^ b on non-negative numbers
Xor(a, b) ==
    IF a = 0 THEN b
    ELSE IF b = 0 THEN a
    ELSE ((a + b) % 2) + 2 * Xor(a \div 2, b \div 2)

\* a 32-bit word is its two 16-bit halves
Word(hi, lo) == [hi |-> hi, lo |-> lo]

\* the reflected CRC-32 polynomial 0xEDB88320
CrcPoly == Word(60856, 33568)

Words == [hi : 0..(Half - 1), lo : 0..(Half - 1)]

\* word >> 1
Shr1[word \in Words] == Word(word.hi \div 2, (word.lo \div 2) + (word.hi % 2) * (Half \div 2))

\* one bit of the division: (word >> 1) ^ poly if the low bit is set
CrcShift[word \in Words] ==
    IF word.lo % 2 = 1
    THEN Word(Xor(Shr1[word].hi, CrcPoly.hi), Xor(Shr1[word].lo, CrcPoly.lo))
    ELSE Shr1[word]

\* `crc ^= byte`, then eight bits of the division
CrcByte[word \in Words, byte \in 0..255] ==
    CrcShift[CrcShift[CrcShift[CrcShift[CrcShift[CrcShift[CrcShift[CrcShift[
        Word(word.hi, Xor(word.lo, byte))]]]]]]]]

\* the loop of the checksum over data[lo..hi], taken in two halves
CrcRange[data \in Seq(0..255), lo \in Nat, hi \in Nat, word \in Words] ==
    IF lo > hi THEN word
    ELSE IF lo = hi THEN CrcByte[word, data[lo]]
    ELSE CrcRange[data, ((lo + hi) \div 2) + 1, hi, CrcRange[data, lo, (lo + hi) \div 2, word]]

\* zlib.crc32(data) & 0xFFFFFFFF, as its four big-endian bytes
crc32(data) ==
    LET word == CrcRange[data, 1, Len(data), Word(Half - 1, Half - 1)]
        hi == Half - 1 - word.hi
        lo == Half - 1 - word.lo
    IN  <<hi \div 256, hi % 256, lo \div 256, lo % 256>>

AdlerMod == 65521

RECURSIVE AdlerSum(_, _, _, _)
\* the sum of weight * data[i] over lo..hi, the weight of data[i] being
\* 1 (times = 0) or the number of bytes from i to the end (times = 1)
AdlerSum(data, lo, hi, times) ==
    IF lo > hi THEN 0
    ELSE IF lo = hi THEN (IF times = 1 THEN Len(data) - lo + 1 ELSE 1) * data[lo]
    ELSE AdlerSum(data, lo, (lo + hi) \div 2, times)
         + AdlerSum(data, ((lo + hi) \div 2) + 1, hi, times)

\* the Adler-32 trailer of a zlib stream, big-endian: a is 1 plus the sum of
\* the bytes, b the sum of the values a takes after each byte
adler32(data) ==
    LET a == (1 + AdlerSum(data, 1, Len(data), 0)) % AdlerMod
        b == (Len(data) + AdlerSum(data, 1, Len(data), 1)) % AdlerMod
    IN  <<b \div 256, b % 256, a \div 256, a % 256>>

\* 16-bit little-endian
LE16(n) == <<n % 256, n \div 256>>

StoredMax == 65535

\* zlib.compress.  DEFLATE leaves the choice of blocks to the encoder; the
\* model takes the stream made of one stored block, which zlib.decompress
\* reads back like any other encoding of the same data.
zlib_compress(data) ==
    <<120, 1, 1>> \o LE16(Len(data)) \o LE16(StoredMax - Len(data)) \o data \o adler32(data)

\* zlib.decompress on such a stream; another stream raises zlib.error
zlib_decompress(data) ==
    IF /\ Len(data) >= 11
       /\ SubSeq(data, 1, 3) = <<120, 1, 1>>
       /\ LET ln == data[4] + 256 * data[5]
          IN  /\ data[6] + 256 * data[7] = StoredMax - ln
              /\ Len(data) = 11 + ln
              /\ SubSeq(data, 8 + ln, 11 + ln) = adler32(SubSeq(data, 8, 7 + ln))
    THEN Ok(SubSeq(data, 8, 7 + data[4] + 256 * data[5]))
    ELSE Exc("zlib.error")

\* int.to_bytes(width, "big")
RECURSIVE to_bytes(_, _)
to_bytes(n, width) == IF width = 0 THEN <<>> ELSE to_bytes(n \div 256, width - 1) \o <<n % 256>>

\* int.from_bytes(b, "big")
RECURSIVE from_bytes(_)
from_bytes(b) == IF b = <<>> THEN 0 ELSE 256 * from_bytes(SubSeq(b, 1, Len(b) - 1)) + b[Len(b)]

\* a slice of up to four bytes as the four big-endian bytes of the same number
Pad4(b) == [j \in 1..4 |-> IF j <= 4 - Len(b) THEN 0 ELSE b[j - (4 - Len(b))]]

RECURSIVE JsonPairs(_, _)
\* the members of a JSON object with separators (",", ":"); keys and values
\* are strings without escapes
JsonPairs(meta, i) ==
    IF i > Len(meta) THEN <<>>
    ELSE (IF i > 1 THEN <<44>> ELSE <<>>)
         \o <<34>> \o Encode(meta[i][1]) \o <<34, 58, 34>> \o Encode(meta[i][2]) \o <<34>>
         \o JsonPairs(meta, i + 1)

\* the document of a dict
JsonObject(pairs) == <<123>> \o JsonPairs(pairs, 1) \o <<125>>

\* json.dumps(meta or {}, separators=(",", ":")).encode("utf-8"); meta is
\* None or a sequence of <<key, value>> pairs
json_dumps(meta) == IF meta = None THEN <<123, 125>> ELSE JsonObject(meta.pairs)

\* a dict of strings: its <<key, value>> pairs in insertion order
Meta(pairs) == [k |-> "dict", pairs |-> pairs]

\* the text between the quotes at doc[i] and doc[j]: [ok, v, i (after it)]
JsonText(str, j) == IF ~str.ok THEN str ELSE [ok |-> TRUE, v |-> str.v, i |-> j + 1]

JsonQuoted(doc, i, j) == JsonText(Decode(SubSeq(doc, i + 1, j - 1)), j)

\* a JSON string without escapes that starts at doc[i]
JsonString(doc, i) ==
    IF i > Len(doc) \/ doc[i] # 34 \/ ~\E j \in (i + 1)..Len(doc) : doc[j] = 34
    THEN Exc("ValueError: invalid metadata json")
    ELSE JsonQuoted(doc, i, CHOOSE j \in (i + 1)..Len(doc) :
                                doc[j] = 34 /\ \A l \in (i + 1)..(j - 1) : doc[l] # 34)

JsonCons(pair, rest) == IF ~rest.ok THEN rest ELSE Ok(<<pair>> \o rest.v)

RECURSIVE JsonMembers(_, _)
\* after a member: the closing brace that ends doc, or a comma and more members
JsonAfterValue(doc, key, val) ==
    IF ~val.ok THEN val
    ELSE IF val.i = Len(doc) /\ doc[val.i] = 125 THEN Ok(<<<<key.v, val.v>>>>)
    ELSE IF val.i < Len(doc) /\ doc[val.i] = 44
    THEN JsonCons(<<key.v, val.v>>, JsonMembers(doc, val.i + 1))
    ELSE Exc("ValueError: invalid metadata json")

JsonAfterKey(doc, key) ==
    IF ~key.ok THEN key
    ELSE IF key.i > Len(doc) \/ doc[key.i] # 58
    THEN Exc("ValueError: invalid metadata json")
    ELSE JsonAfterValue(doc, key, JsonString(doc, key.i + 1))

\* the members that start at doc[i], up to the closing brace that ends doc
JsonMembers(doc, i) == JsonAfterKey(doc, JsonString(doc, i))

JsonMeta(members) == IF ~members.ok THEN members ELSE Ok(Meta(members.v))

\* json.loads(meta_json.decode("utf-8")) on an object of strings
json_loads(doc) ==
    IF Len(doc) < 2 \/ doc[1] # 123 \/ doc[Len(doc)] # 125
    THEN Exc("ValueError: invalid metadata json")
    ELSE IF Len(doc) = 2 THEN Ok(Meta(<<>>))
    ELSE JsonMeta(JsonMembers(doc, 2))

_pack(body, meta, flags) ==
    LET meta_bytes == json_dumps(meta)
        compressed_body == zlib_compress(body)
    IN  MAGIC \o to_bytes(VERSION, 2) \o to_bytes(flags, 2)
        \o to_bytes(Len(meta_bytes), 4) \o to_bytes(Len(compressed_body), 4)
        \o crc32(compressed_body) \o meta_bytes \o compressed_body

HeaderLen == 20

\* an _unpack that takes everything after the metadata for the body
_unpack_to_end(mv) ==
    IF Len(mv) < 6 \/ Slice(mv, 0, 4) # MAGIC THEN Exc("ValueError: bad magic")
    ELSE IF from_bytes(Slice(mv, 4, 6)) # VERSION
    THEN Exc("ValueError: unsupported bytecode version")
    ELSE LET meta_len == from_bytes(Slice(mv, 8, 12))
             body_len == from_bytes(Slice(mv, 12, 16))
             crc_expect == Slice(mv, 16, 20)
             end_meta == HeaderLen + meta_len
             end_body == end_meta + body_len
         IN  IF end_meta > Len(mv) \/ end_body > Len(mv)
             THEN Exc("ValueError: bytecode header lengths out of range")
             ELSE LET meta == IF meta_len # 0 THEN json_loads(Slice(mv, HeaderLen, end_meta))
                                              ELSE Ok(Meta(<<>>))
                      body == Slice(mv, end_meta, Len(mv))
                  IN  IF ~meta.ok THEN meta
                      ELSE IF crc32(body) # Pad4(crc_expect)
                      THEN Exc("ValueError: bytecode CRC mismatch")
                      ELSE LET raw == zlib_decompress(body)
                           IN  IF ~raw.ok THEN raw
                               ELSE [ok |-> TRUE, v |-> raw.v, meta |-> meta.v]

\* returns [ok, v (the body), meta]
_unpack(mv) ==
    IF Len(mv) < 6 \/ Slice(mv, 0, 4) # MAGIC THEN Exc("ValueError: bad magic")
    ELSE IF from_bytes(Slice(mv, 4, 6)) # VERSION
    THEN Exc("ValueError: unsupported bytecode version")
    ELSE LET meta_len == from_bytes(Slice(mv, 8, 12))
             body_len == from_bytes(Slice(mv, 12, 16))
             crc_expect == Slice(mv, 16, 20)
             end_meta == HeaderLen + meta_len
             end_body == end_meta + body_len
         IN  IF end_meta > Len(mv) \/ end_body > Len(mv)
             THEN Exc("ValueError: bytecode header lengths out of range")
             ELSE LET meta == IF meta_len # 0 THEN json_loads(Slice(mv, HeaderLen, end_meta))
                                              ELSE Ok(Meta(<<>>))
                      body == Slice(mv, end_meta, end_body)
                  IN  IF ~meta.ok THEN meta
                      ELSE IF crc32(body) # Pad4(crc_expect)
                      THEN Exc("ValueError: bytecode CRC mismatch")
                      ELSE LET raw == zlib_decompress(body)
                           IN  IF ~raw.ok THEN raw
                               ELSE [ok |-> TRUE, v |-> raw.v, meta |-> meta.v]

serialize(instrs, meta) ==
    LET body == _enc_stream(instrs)
    IN  IF ~body.ok THEN body ELSE Ok(_pack(body.v, meta, 0))

deserialize(blob) ==
    LET body == _unpack(blob)
    IN  IF ~body.ok THEN body
        ELSE LET instrs == _dec_stream(body.v, 0)
             IN  IF ~instrs.ok THEN instrs ELSE Ok(instrs.v)

peek_metadata(blob) ==
    LET r == _unpack(blob)
    IN  IF ~r.ok THEN r ELSE Ok(r.meta)

(***************************************************************************)
(* The standard library (stdlib.py) and Interpreter.__init__.              *)
(***************************************************************************)
\* def __list_map(l, f) ret = [] for x in l z = f(x) ret.append(z) end return ret end
iList_map_function ==
    Start(<<FuncDef("__list_map", <<"l", "f">>,
              <<Assign("ret", ListLit(<<>>)),
                ForStmt("x", Var("l"),
                   <<Assign("z", Call(Var("f"), <<Var("x")>>)),
                     ExprStmt(MethodCall(Var("ret"), "append", <<Var("z")>>))>>),
                ReturnStmt(Var("ret"))>>)>>)

\* def __list_each(l, f) for x in l f(x) end end
iList_each_function ==
    Start(<<FuncDef("__list_each", <<"l", "f">>,
              <<ForStmt("x", Var("l"), <<ExprStmt(Call(Var("f"), <<Var("x")>>))>>)>>)>>)

\* def __list_filter(l, f) ret = [] for x in l cond = f(x) if cond: ret.append(x) end end return ret end
iList_filter_function ==
    Start(<<FuncDef("__list_filter", <<"l", "f">>,
              <<Assign("ret", ListLit(<<>>)),
                ForStmt("x", Var("l"),
                   <<Assign("cond", Call(Var("f"), <<Var("x")>>)),
                     IfStmt(<<Clause(Var("cond"),
                        <<ExprStmt(MethodCall(Var("ret"), "append", <<Var("x")>>))>>)>>)>>),
                ReturnStmt(Var("ret"))>>)>>)

\* register_dsl_method: the source is compiled and executed (PUSH of the
\* Function, STORE under func_name), the Function is taken out of the
\* globals, which lose the name again
register_dsl_method(src, func_name) ==
    LET bc == compile(src)
    IN  store(<<>>, bc[2].arg.s, bc[1].arg)[func_name]

\* register_list_methods, register_str_methods, register_dict_methods
StdMethods ==
    [iList |-> [append |-> iPyfunction("_list_append", 2, FALSE),
                pop |-> iPyfunction("list_pop", 1, FALSE),
                each |-> register_dsl_method(iList_each_function, "__list_each"),
                map |-> register_dsl_method(iList_map_function, "__list_map"),
                filter |-> register_dsl_method(iList_filter_function, "__list_filter")],
     range |-> [each |-> register_dsl_method(iList_each_function, "__list_each"),
                filter |-> register_dsl_method(iList_filter_function, "__list_filter")],
     iString |-> [fmt |-> iPyfunction("__str_fmt", 0, TRUE),
                  join |-> iPyfunction("__str_join", 2, FALSE)],
     iDict |-> [keys |-> iPyfunction("dict_keys", 1, FALSE)]]

\* Interpreter.register_method(cls, name, fn): the table after the host has
\* registered, on the base class iObject, a method under the name of a List
\* method and one under the name of a host attribute
RegisteredMethods ==
    StdMethods @@ [iObject |-> [append |-> iPyfunction("host_fn", 1, FALSE),
                                val |-> iPyfunction("host_fn", 1, FALSE)]]

\* load_stdlib: the globals a new interpreter holds
StdGlobals ==
    [range |-> iPyfunction("range_fn", 1, FALSE), len |-> iPyfunction("len_fn", 1, FALSE)]

(***************************************************************************)
(* The programs run: the cases of the repository's tests and the cases of  *)
(* the call protocol, the logical operators, Dict keys and lvalue          *)
(* assignment.  A case is a syntax tree for the compiler or, where the     *)
(* compiler cannot produce the instructions, an instruction list.          *)
(***************************************************************************)
\* name tells the cases apart
Compiled(name, tree) == [origin |-> "compiler", name |-> name, tree |-> tree]

Raw(name, instrs) == [origin |-> "raw", name |-> name, code |-> instrs]

RangeN == 3

\* return 1 + 2 * 3
PArith == Start(<<ReturnStmt(Bin("add", Num(1), Bin("mul", Num(2), Num(3))))>>)

\* return (7 - 2) % 3 + 7 / 2 - (-1)
PArith2 ==
    Start(<<ReturnStmt(Bin("sub", Bin("add", Bin("mod", Bin("sub", Num(7), Num(2)), Num(3)),
                                      Bin("div", Num(7), Num(2))), Neg(Num(1))))>>)

\* print 1 == 1  print 1 != 2  print 3 > 2  print 2 < 3  print 3 >= 3
\* print 2 <= 1  print 2 in [1, 2, 3]  return not (1 == 2)
PCompare ==
    Start(<<PrintStmt(Bin("eq", Num(1), Num(1))), PrintStmt(Bin("ne", Num(1), Num(2))),
            PrintStmt(Bin("gt", Num(3), Num(2))), PrintStmt(Bin("lt", Num(2), Num(3))),
            PrintStmt(Bin("ge", Num(3), Num(3))), PrintStmt(Bin("le", Num(2), Num(1))),
            PrintStmt(Bin("in_op", Num(2), ListLit(<<Num(1), Num(2), Num(3)>>))),
            ReturnStmt(Not(Bin("eq", Num(1), Num(2))))>>)

\* for i in range(RangeN): print i end
PForPrint ==
    Start(<<ForStmt("i", Call(Var("range"), <<Num(RangeN)>>), <<PrintStmt(Var("i"))>>)>>)

\* for x in range(RangeN): return x end
PForReturn ==
    Start(<<ForStmt("x", Call(Var("range"), <<Num(RangeN)>>), <<ReturnStmt(Var("x"))>>)>>)

\* def f(n) for x in range(n): return x end end  y = f(2)  return y
PForReturnFn ==
    Start(<<FuncDef("f", <<"n">>,
              <<ForStmt("x", Call(Var("range"), <<Var("n")>>), <<ReturnStmt(Var("x"))>>)>>),
            Assign("y", Call(Var("f"), <<Num(2)>>)),
            ReturnStmt(Var("y"))>>)

\* def greet(role) if role == "admin": return "hi admin" elif role == "user":
\* return "hi user" else return "hi" end end  print greet("user")  return greet("root")
PGreet ==
    Start(<<FuncDef("greet", <<"role">>,
              <<IfElse(<<Clause(Bin("eq", Var("role"), StrLit("admin")),
                                <<ReturnStmt(StrLit("hi admin"))>>),
                         Clause(Bin("eq", Var("role"), StrLit("user")),
                                <<ReturnStmt(StrLit("hi user"))>>)>>,
                       <<ReturnStmt(StrLit("hi"))>>)>>),
            PrintStmt(Call(Var("greet"), <<StrLit("user")>>)),
            ReturnStmt(Call(Var("greet"), <<StrLit("root")>>))>>)

\* def add(x, y) return x + y end  xs = []
\* for i in range(RangeN): xs.append(add(i, 10)) end  return xs[1]
PAddAppend ==
    Start(<<FuncDef("add", <<"x", "y">>, <<ReturnStmt(Bin("add", Var("x"), Var("y")))>>),
            Assign("xs", ListLit(<<>>)),
            ForStmt("i", Call(Var("range"), <<Num(RangeN)>>),
               <<ExprStmt(MethodCall(Var("xs"), "append",
                             <<Call(Var("add"), <<Var("i"), Num(10)>>)>>))>>),
            ReturnStmt(Index(Var("xs"), Num(1)))>>)

\* def mk() return (x, n) => x + n end  f = mk()  return f(41, 1)
PLambda ==
    Start(<<FuncDef("mk", <<>>,
              <<ReturnStmt(LambdaExpr(<<"x", "n">>, Bin("add", Var("x"), Var("n"))))>>),
            Assign("f", Call(Var("mk"), <<>>)),
            ReturnStmt(Call(Var("f"), <<Num(41), Num(1)>>))>>)

\* xs = [0, 1, 2]  xs[1] := 99  return xs[1]
PListSet ==
    Start(<<Assign("xs", ListLit(<<Num(0), Num(1), Num(2)>>)),
            LvalueAssign("xs", <<HopIndex(Num(1))>>, Num(99)),
            ReturnStmt(Index(Var("xs"), Num(1)))>>)

\* l = [1, 2, 3]  return l.pop()
PPop ==
    Start(<<Assign("l", ListLit(<<Num(1), Num(2), Num(3)>>)),
            ReturnStmt(MethodCall(Var("l"), "pop", <<>>))>>)

\* l = []  [1, 2, 3].each(i => l.append(i * 10))  return l[0]
PEach ==
    Start(<<Assign("l", ListLit(<<>>)),
            ExprStmt(MethodCall(ListLit(<<Num(1), Num(2), Num(3)>>), "each",
               <<LambdaExpr(<<"i">>,
                    MethodCall(Var("l"), "append", <<Bin("mul", Var("i"), Num(10))>>))>>)),
            ReturnStmt(Index(Var("l"), Num(0)))>>)

\* u = {name: "alice", age: 30}  return u["name"]
PDict ==
    Start(<<Assign("u", DictLit(<<Item("name", StrLit("alice")), Item("age", Num(30))>>)),
            ReturnStmt(Index(Var("u"), StrLit("name")))>>)

\* u = {team: {lead: "bob"}}  t = u["team"]  u["team"]["lead"] := "alice"
\* return t["lead"]
PNested ==
    Start(<<Assign("u", DictLit(<<Item("team", DictLit(<<Item("lead", StrLit("bob"))>>))>>)),
            Assign("t", Index(Var("u"), StrLit("team"))),
            LvalueAssign("u", <<HopIndex(StrLit("team")), HopIndex(StrLit("lead"))>>,
                         StrLit("alice")),
            ReturnStmt(Index(Var("t"), StrLit("lead")))>>)

AddDef == FuncDef("add", <<"x", "y">>, <<ReturnStmt(Bin("add", Var("x"), Var("y")))>>)

\* def add(x, y) return x + y end  print "before"  r = add(1)  print "after"  return r
PArityFewer ==
    Start(<<AddDef, PrintStmt(StrLit("before")), Assign("r", Call(Var("add"), <<Num(1)>>)),
            PrintStmt(StrLit("after")), ReturnStmt(Var("r"))>>)

\* def add(x, y) return x + y end  return add(1, 2, 3)
PArityMore == Start(<<AddDef, ReturnStmt(Call(Var("add"), <<Num(1), Num(2), Num(3)>>))>>)

\* def outer() return add(1) end  def add(x, y) return x + y end  return outer()
PArityNested ==
    Start(<<FuncDef("outer", <<>>, <<ReturnStmt(Call(Var("add"), <<Num(1)>>))>>),
            AddDef, ReturnStmt(Call(Var("outer"), <<>>))>>)

\* l = [1]  l.append(2, 3)  return l
PArityBound ==
    Start(<<Assign("l", ListLit(<<Num(1)>>)),
            ExprStmt(MethodCall(Var("l"), "append", <<Num(2), Num(3)>>)),
            ReturnStmt(Var("l"))>>)

\* l = [1]  l.each()  return l
PArityBoundFn ==
    Start(<<Assign("l", ListLit(<<Num(1)>>)),
            ExprStmt(MethodCall(Var("l"), "each", <<>>)),
            ReturnStmt(Var("l"))>>)

\* l = [4, 5]  return l.map(x => x - 1)[1]
PMap ==
    Start(<<Assign("l", ListLit(<<Num(4), Num(5)>>)),
            ReturnStmt(Postfix(Var("l"),
               <<SufAttr("map"),
                 SufCall(<<LambdaExpr(<<"x">>, Bin("sub", Var("x"), Num(1)))>>),
                 SufIndex(Num(1))>>))>>)

\* return len([1], [2])
PArityNative ==
    Start(<<ReturnStmt(Call(Var("len"), <<ListLit(<<Num(1)>>), ListLit(<<Num(2)>>)>>))>>)

\* return len([1, 2])
PLen == Start(<<ReturnStmt(Call(Var("len"), <<ListLit(<<Num(1), Num(2)>>)>>))>>)

\* callee(1)  print "after"  return 7, callee being an undefined name, an
\* Integer, a String, a List, a Dict
PCallNonCallable(init) ==
    Start(init \o <<ExprStmt(Call(Var("callee"), <<Num(1)>>)),
                    PrintStmt(StrLit("after")), ReturnStmt(Num(7))>>)

NonCallables ==
    << <<>>,
       <<Assign("callee", Num(5))>>,
       <<Assign("callee", StrLit("x"))>>,
       <<Assign("callee", ListLit(<<Num(1)>>))>>,
       <<Assign("callee", DictLit(<<Item("a", Num(1))>>))>> >>

\* return "%s, %s".fmt("hello", "world")
PFmt2 ==
    Start(<<ReturnStmt(MethodCall(StrLit("%s, %s"), "fmt",
                                  <<StrLit("hello"), StrLit("world")>>))>>)

\* return "%s %s %d".fmt("one", "two", 3)
PFmt3 ==
    Start(<<ReturnStmt(MethodCall(StrLit("%s %s %d"), "fmt",
                                  <<StrLit("one"), StrLit("two"), Num(3)>>))>>)

\* return ",".join(["one", "two", "three"])
PJoin ==
    Start(<<ReturnStmt(MethodCall(StrLit(","), "join",
               <<ListLit(<<StrLit("one"), StrLit("two"), StrLit("three")>>)>>))>>)

\* the operands of the logical operators: one falsy and one truthy value of
\* each kind of literal
Operands ==
    <<Num(0), Num(1), StrLit(""), StrLit("x"), False, True, ListLit(<<>>),
      ListLit(<<Num(1)>>)>>

\* print "before"  return a and b   (or: a or b)
PLogical(op, a, b) == Start(<<PrintStmt(StrLit("before")), ReturnStmt(Bin(op, a, b))>>)

LogicalCases ==
    [i \in 1..(2 * Len(Operands) * Len(Operands)) |->
        LET j == (i - 1) \div 2
        IN  Compiled("PLogical", PLogical(IF i % 2 = 1 THEN "and_op" ELSE "or_op",
                              Operands[(j \div Len(Operands)) + 1],
                              Operands[(j % Len(Operands)) + 1]))]

\* d = {a: 1}  d[1] := 5  return d[1]
PDictIntKey ==
    Start(<<Assign("d", DictLit(<<Item("a", Num(1))>>)),
            LvalueAssign("d", <<HopIndex(Num(1))>>, Num(5)),
            ReturnStmt(Index(Var("d"), Num(1)))>>)

\* d = {}  d[2] := 7  d[true] := 8  return d["2"]
PDictStore ==
    Start(<<Assign("d", DictLit(<<>>)),
            LvalueAssign("d", <<HopIndex(Num(2))>>, Num(7)),
            LvalueAssign("d", <<HopIndex(True)>>, Num(8)),
            ReturnStmt(Index(Var("d"), StrLit("2")))>>)

\* d = {a: 1}  return d[3]
PDictAbsentInt ==
    Start(<<Assign("d", DictLit(<<Item("a", Num(1))>>)),
            ReturnStmt(Index(Var("d"), Num(3)))>>)

\* d = {a: 1}  return d["zz"]
PDictAbsentStr ==
    Start(<<Assign("d", DictLit(<<Item("a", Num(1))>>)),
            ReturnStmt(Index(Var("d"), StrLit("zz")))>>)

\* MAKE_DICT on an Integer key, which no dict literal compiles to
RawMakeDict ==
    <<Instruction("PUSH", iInteger(1)), Instruction("PUSH", iInteger(10)),
      Instruction("MAKE_DICT", iInteger(1)), Instruction("STORE", iString("d")),
      Instruction("PUSH_GLOBAL", iString("d")), Instruction("PUSH", iString("1")),
      Instruction("INDEX", iNil), Instruction("RETURN", iNil)>>

\* xs = [0, 1]  ys = xs  ys[0] := 5  return xs[0]
PAliasList ==
    Start(<<Assign("xs", ListLit(<<Num(0), Num(1)>>)), Assign("ys", Var("xs")),
            LvalueAssign("ys", <<HopIndex(Num(0))>>, Num(5)),
            ReturnStmt(Index(Var("xs"), Num(0)))>>)

\* m = [[0, 1], [2]]  r = m[0]  m[0][1] := 7  return r[1]
PAliasElement ==
    Start(<<Assign("m", ListLit(<<ListLit(<<Num(0), Num(1)>>), ListLit(<<Num(2)>>)>>)),
            Assign("r", Index(Var("m"), Num(0))),
            LvalueAssign("m", <<HopIndex(Num(0)), HopIndex(Num(1))>>, Num(7)),
            ReturnStmt(Index(Var("r"), Num(1)))>>)

\* def set(l) l[0] := 9 return 0 end  xs = [1]  set(xs)  return xs[0]
PAliasLocal ==
    Start(<<FuncDef("set", <<"l">>,
              <<LvalueAssign("l", <<HopIndex(Num(0))>>, Num(9)), ReturnStmt(Num(0))>>),
            Assign("xs", ListLit(<<Num(1)>>)),
            ExprStmt(Call(Var("set"), <<Var("xs")>>)),
            ReturnStmt(Index(Var("xs"), Num(0)))>>)

\* d = {"1": [0]}  d[1][0] := 9  return d["1"][0]
PHopIntKey ==
    Start(<<Assign("d", DictLit(<<Item("1", ListLit(<<Num(0)>>))>>)),
            LvalueAssign("d", <<HopIndex(Num(1)), HopIndex(Num(0))>>, Num(9)),
            ReturnStmt(Postfix(Var("d"), <<SufIndex(StrLit("1")), SufIndex(Num(0))>>))>>)

\* u = {a: 1}  u.a := 2  return u
PSetAttr ==
    Start(<<Assign("u", DictLit(<<Item("a", Num(1))>>)),
            LvalueAssign("u", <<HopAttr("a")>>, Num(2)), ReturnStmt(Var("u"))>>)

\* the legacy opcodes: GETITEM, and CALL, which has no handler
RawGetItem ==
    <<Instruction("PUSH", iInteger(1)), Instruction("STORE", iString("k")),
      Instruction("PUSH", iInteger(4)), Instruction("PUSH", iInteger(5)),
      Instruction("MAKE_LIST", iInteger(2)), Instruction("GETITEM", iString("k")),
      Instruction("RETURN", iNil)>>

RawCall ==
    <<Instruction("PUSH_GLOBAL", iString("len")), Instruction("CALL", iInteger(0)),
      Instruction("RETURN", iNil)>>

\* def mk(n) f = (x) => n  return f(41) end  return mk(1)
PCaptureNil ==
    Start(<<FuncDef("mk", <<"n">>,
              <<Assign("f", LambdaExpr(<<"x">>, Var("n"))),
                ReturnStmt(Call(Var("f"), <<Num(41)>>))>>),
            ReturnStmt(Call(Var("mk"), <<Num(1)>>))>>)

\* n = 7  def mk(n) f = (x) => n  return f(41) end  return mk(1)
PCaptureGlobal ==
    Start(<<Assign("n", Num(7)),
            FuncDef("mk", <<"n">>,
              <<Assign("f", LambdaExpr(<<"x">>, Var("n"))),
                ReturnStmt(Call(Var("f"), <<Num(41)>>))>>),
            ReturnStmt(Call(Var("mk"), <<Num(1)>>))>>)

\* def mk(n) return (x) => n end  def run(f) n = 9  return f(0) end
\* g = mk(1)  n = 5  return run(g)
PCaptureLate ==
    Start(<<FuncDef("mk", <<"n">>, <<ReturnStmt(LambdaExpr(<<"x">>, Var("n")))>>),
            FuncDef("run", <<"f">>,
              <<Assign("n", Num(9)), ReturnStmt(Call(Var("f"), <<Num(0)>>))>>),
            Assign("g", Call(Var("mk"), <<Num(1)>>)),
            Assign("n", Num(5)),
            ReturnStmt(Call(Var("run"), <<Var("g")>>))>>)

\* programs about the scope of names
ScopeCases ==
    <<Compiled("PCaptureNil", PCaptureNil), Compiled("PCaptureGlobal", PCaptureGlobal),
      Compiled("PCaptureLate", PCaptureLate)>>

\* n = 1  def callee() n = 3  return n end  def outer() n = 2  callee()  return n end
\* r = outer()  print r  return n
PFrameAssign ==
    Start(<<Assign("n", Num(1)),
            FuncDef("callee", <<>>, <<Assign("n", Num(3)), ReturnStmt(Var("n"))>>),
            FuncDef("outer", <<>>,
              <<Assign("n", Num(2)), ExprStmt(Call(Var("callee"), <<>>)),
                ReturnStmt(Var("n"))>>),
            Assign("r", Call(Var("outer"), <<>>)),
            PrintStmt(Var("r")),
            ReturnStmt(Var("n"))>>)

\* i = 9  def f() for i in range(2) print i end  return i end
\* r = f()  print r  return i
PFrameFor ==
    Start(<<Assign("i", Num(9)),
            FuncDef("f", <<>>,
              <<ForStmt("i", Call(Var("range"), <<Num(2)>>), <<PrintStmt(Var("i"))>>),
                ReturnStmt(Var("i"))>>),
            Assign("r", Call(Var("f"), <<>>)),
            PrintStmt(Var("r")),
            ReturnStmt(Var("i"))>>)

\* programs about the frame a function body writes
FrameCases ==
    <<Compiled("PFrameAssign", PFrameAssign), Compiled("PFrameFor", PFrameFor)>>

\* for x in range(RangeN) print x end  return 7
PLoopRange ==
    Start(<<ForStmt("x", Call(Var("range"), <<Num(RangeN)>>), <<PrintStmt(Var("x"))>>),
            ReturnStmt(Num(7))>>)

\* xs = ["a", "b"]  for x in xs print x end  return 7
PLoopList ==
    Start(<<Assign("xs", ListLit(<<StrLit("a"), StrLit("b")>>)),
            ForStmt("x", Var("xs"), <<PrintStmt(Var("x"))>>),
            ReturnStmt(Num(7))>>)

\* for x in [] print x end  return 7
PLoopEmpty ==
    Start(<<ForStmt("x", ListLit(<<>>), <<PrintStmt(Var("x"))>>), ReturnStmt(Num(7))>>)

\* for k in {a: 1, b: 2} print k end  return 7
PLoopDict ==
    Start(<<ForStmt("k", DictLit(<<Item("a", Num(1)), Item("b", Num(2))>>),
                    <<PrintStmt(Var("k"))>>),
            ReturnStmt(Num(7))>>)

\* for x in range(2) for y in ["a"] print y end  print x end  return 7
PLoopNested ==
    Start(<<ForStmt("x", Call(Var("range"), <<Num(2)>>),
              <<ForStmt("y", ListLit(<<StrLit("a")>>), <<PrintStmt(Var("y"))>>),
                PrintStmt(Var("x"))>>),
            ReturnStmt(Num(7))>>)

\* def f(l) for x in l print x end  return 7 end  return f([2, 3])
PLoopFn ==
    Start(<<FuncDef("f", <<"l">>,
              <<ForStmt("x", Var("l"), <<PrintStmt(Var("x"))>>), ReturnStmt(Num(7))>>),
            ReturnStmt(Call(Var("f"), <<ListLit(<<Num(2), Num(3)>>)>>))>>)

\* for x in range(2) callee(x) end  return 7      (callee is not defined)
PLoopCall ==
    Start(<<ForStmt("x", Call(Var("range"), <<Num(2)>>),
                    <<ExprStmt(Call(Var("callee"), <<Var("x")>>))>>),
            ReturnStmt(Num(7))>>)

\* loops whose body neither returns nor changes what the loop iterates over
LoopCases ==
    <<Compiled("PLoopRange", PLoopRange), Compiled("PLoopList", PLoopList),
      Compiled("PLoopEmpty", PLoopEmpty), Compiled("PLoopDict", PLoopDict),
      Compiled("PLoopNested", PLoopNested), Compiled("PLoopFn", PLoopFn),
      Compiled("PLoopCall", PLoopCall)>>

\* def c1() print "c1"  return v1 end  def c2() print "c2"  return v2 end
\* if c1(): print "then" [elif c2(): print "elif"] [else print "else"] end
\* print "after"  return 7
PIf(with_elif, with_else, v1, v2) ==
    LET clauses == <<Clause(Call(Var("c1"), <<>>), <<PrintStmt(StrLit("then"))>>)>> \o
                   (IF with_elif
                    THEN <<Clause(Call(Var("c2"), <<>>), <<PrintStmt(StrLit("elif"))>>)>>
                    ELSE <<>>)
    IN  Start(<<FuncDef("c1", <<>>, <<PrintStmt(StrLit("c1")), ReturnStmt(v1)>>),
                FuncDef("c2", <<>>, <<PrintStmt(StrLit("c2")), ReturnStmt(v2)>>),
                IF with_else THEN IfElse(clauses, <<PrintStmt(StrLit("else"))>>)
                ELSE IfStmt(clauses),
                PrintStmt(StrLit("after")),
                ReturnStmt(Num(7))>>)

Conditions == <<False, True, Num(0), StrLit("a")>>

\* every shape of the statement with every pair of condition values
IfCases ==
    [i \in 1..(4 * Len(Conditions) * Len(Conditions)) |->
        LET shape == (i - 1) \div (Len(Conditions) * Len(Conditions))
            j == (i - 1) % (Len(Conditions) * Len(Conditions))
        IN  Compiled("PIf", PIf(shape \div 2 = 1, shape % 2 = 1,
                                Conditions[(j \div Len(Conditions)) + 1],
                                Conditions[(j % Len(Conditions)) + 1]))]

\* return 1  print "after"  return 7
PAfterReturn ==
    Start(<<ReturnStmt(Num(1)), PrintStmt(StrLit("after")), ReturnStmt(Num(7))>>)

\* if cond: print "then" else return 1 end  print "after"  return 7
PIfElseReturn(cond) ==
    Start(<<IfElse(<<Clause(cond, <<PrintStmt(StrLit("then"))>>)>>,
                   <<ReturnStmt(Num(1))>>),
            PrintStmt(StrLit("after")),
            ReturnStmt(Num(7))>>)

\* if cond: return 1 else return 2 end  print "after"  return 7
PIfBothReturn(cond) ==
    Start(<<IfElse(<<Clause(cond, <<ReturnStmt(Num(1))>>)>>, <<ReturnStmt(Num(2))>>),
            PrintStmt(StrLit("after")),
            ReturnStmt(Num(7))>>)

\* def f(c) if c: print "then" else return 1 end  print "after"  return 7 end
\* return f(true)
PIfElseReturnFn ==
    Start(<<FuncDef("f", <<"c">>,
              <<IfElse(<<Clause(Var("c"), <<PrintStmt(StrLit("then"))>>)>>,
                       <<ReturnStmt(Num(1))>>),
                PrintStmt(StrLit("after")),
                ReturnStmt(Num(7))>>),
            ReturnStmt(Call(Var("f"), <<True>>))>>)

\* programs with statements after a return
ReturnCases ==
    <<Compiled("PAfterReturn", PAfterReturn),
      Compiled("PIfElseReturnTaken", PIfElseReturn(False)),
      Compiled("PIfElseReturn", PIfElseReturn(True)),
      Compiled("PIfBothReturnThen", PIfBothReturn(True)),
      Compiled("PIfBothReturnElse", PIfBothReturn(False)),
      Compiled("PIfElseReturnFn", PIfElseReturnFn)>>

\* instructions after a RETURN
RawAfterReturn ==
    <<Instruction("PUSH", iInteger(1)), Instruction("RETURN", iNil),
      Instruction("PUSH", iString("after")), Instruction("PRINT", iNil),
      Instruction("PUSH", iInteger(7)), Instruction("RETURN", iNil)>>

\* no RETURN at all; no instruction at all
RawFallOff == <<Instruction("PUSH", iInteger(1))>>

RawEmpty == <<>>

\* a Function whose body has instructions after its RETURN
RawFnAfterReturn ==
    <<Instruction("PUSH", iFunction(<<Instruction("PUSH", iInteger(2)),
                                      Instruction("RETURN", iNil),
                                      Instruction("PUSH", iString("after")),
                                      Instruction("PRINT", iNil),
                                      Instruction("PUSH", iInteger(7)),
                                      Instruction("RETURN", iNil)>>, 0, <<>>)),
      Instruction("CALL_FN", iInteger(0)), Instruction("RETURN", iNil)>>

\* a Function whose body has no RETURN
RawFnFallOff ==
    <<Instruction("PUSH", iFunction(<<Instruction("PUSH", iInteger(5))>>, 0, <<>>)),
      Instruction("CALL_FN", iInteger(0)), Instruction("RETURN", iNil)>>

ExecCases ==
    <<Raw("RawAfterReturn", RawAfterReturn), Raw("RawFallOff", RawFallOff),
      Raw("RawEmpty", RawEmpty), Raw("RawFnAfterReturn", RawFnAfterReturn),
      Raw("RawFnFallOff", RawFnFallOff)>>

\* o = subject  return o.name
PAttr(subject, name) ==
    Start(<<Assign("o", subject), ReturnStmt(Postfix(Var("o"), <<SufAttr(name)>>))>>)

\* an Integer, a String, a Bool, a List, a Dict, a range, Nil (u is not
\* defined), a native function, a Function, a bound method
AttrSubjects ==
    <<Num(5), StrLit("a"), True, ListLit(<<Num(1)>>), DictLit(<<>>),
      Call(Var("range"), <<Num(2)>>), Var("u"), Var("len"),
      LambdaExpr(<<"x">>, Var("x")),
      Postfix(ListLit(<<>>), <<SufAttr("append")>>)>>

AttrNames ==
    <<"val", "append", "each", "fmt", "stop", "n_params", "value", "items", "zz",
      "keys", "func", "self_obj">>

AttrCases ==
    [i \in 1..(Len(AttrSubjects) * Len(AttrNames)) |->
        Compiled("PAttr", PAttr(AttrSubjects[((i - 1) \div Len(AttrNames)) + 1],
                                AttrNames[((i - 1) % Len(AttrNames)) + 1]))]

\* r = container[key]  print "after"  return r
PIndexMiss(container, key) ==
    Start(<<Assign("r", Index(container, key)), PrintStmt(StrLit("after")),
            ReturnStmt(Var("r"))>>)

\* a List with an index out of range, a Dict without the string key, and
\* pairs with no indexing (u is not defined: Nil)
IndexMisses ==
    <<<<ListLit(<<Num(1), Num(2)>>), Num(2)>>,
      <<ListLit(<<Num(1), Num(2)>>), Neg(Num(3))>>,
      <<ListLit(<<>>), Num(0)>>,
      <<DictLit(<<Item("a", Num(1))>>), StrLit("zz")>>,
      <<DictLit(<<>>), StrLit("a")>>,
      <<Num(5), Num(0)>>,
      <<Num(5), StrLit("a")>>,
      <<Var("u"), Num(0)>>,
      <<True, Num(0)>>,
      <<Var("len"), Num(0)>>,
      <<ListLit(<<Num(1)>>), StrLit("a")>>,
      <<ListLit(<<Num(1)>>), Var("u")>>,
      <<ListLit(<<Num(1)>>), ListLit(<<>>)>>>>

\* r = lhs in rhs  print "after"  return r
PInUnsupported(lhs, rhs) ==
    Start(<<Assign("r", Bin("in_op", lhs, rhs)), PrintStmt(StrLit("after")),
            ReturnStmt(Var("r"))>>)

\* right operands without membership
InUnsupported ==
    <<<<Num(1), Num(5)>>, <<StrLit("a"), Var("u")>>, <<Num(1), True>>,
      <<Num(1), Var("len")>>, <<ListLit(<<>>), Num(0)>>>>

RecoverCases ==
    [i \in 1..Len(IndexMisses) |->
        Compiled("PIndexMiss", PIndexMiss(IndexMisses[i][1], IndexMisses[i][2]))] \o
    [i \in 1..Len(InUnsupported) |->
        Compiled("PInUnsupported", PInUnsupported(InUnsupported[i][1], InUnsupported[i][2]))]

\* return l + r
PAdd(l, r) == Start(<<ReturnStmt(Bin("add", l, r))>>)

\* two Strings (distinct, one empty), two Integers (of either sign)
AddOperands ==
    <<<<StrLit("a"), StrLit("b")>>, <<StrLit(""), StrLit("a")>>,
      <<StrLit("a"), StrLit("a")>>, <<Num(2), Num(3)>>, <<Num(0), Num(0)>>,
      <<Neg(Num(4)), Num(1)>>>>

AddCases ==
    [i \in 1..Len(AddOperands) |-> Compiled("PAdd", PAdd(AddOperands[i][1], AddOperands[i][2]))]

\* def c1() print "c1" return l end  def c2() print "c2" return r end
\* return c1() op c2()
PBin(k, l, r) ==
    Start(<<FuncDef("c1", <<>>, <<PrintStmt(StrLit("c1")), ReturnStmt(l)>>),
            FuncDef("c2", <<>>, <<PrintStmt(StrLit("c2")), ReturnStmt(r)>>),
            ReturnStmt(Bin(k, Call(Var("c1"), <<>>), Call(Var("c2"), <<>>)))>>)

\* def c1() print "c1" return l end  return -c1()
PNeg(l) ==
    Start(<<FuncDef("c1", <<>>, <<PrintStmt(StrLit("c1")), ReturnStmt(l)>>),
            ReturnStmt(Neg(Call(Var("c1"), <<>>)))>>)

\* return (1 + 2) * 3
PParens == Start(<<ReturnStmt(Bin("mul", Bin("add", Num(1), Num(2)), Num(3)))>>)

BinKinds == <<"sub", "mul", "mod", "lt", "le", "gt", "ge", "eq", "ne">>

\* -2, 0, 1, 2 as the source writes them
IntOperands == <<Neg(Num(2)), Num(0), Num(1), Num(2)>>

ListOperands == <<ListLit(<<Num(1), Num(2), Num(3)>>), ListLit(<<>>)>>

\* every operator with every pair of operands; `in` with every operand and list
BinCases ==
    [i \in 1..(Len(BinKinds) * Len(IntOperands) * Len(IntOperands)) |->
        LET j == (i - 1) % (Len(IntOperands) * Len(IntOperands))
        IN  Compiled("PBin", PBin(BinKinds[((i - 1) \div (Len(IntOperands) * Len(IntOperands))) + 1],
                                  IntOperands[(j \div Len(IntOperands)) + 1],
                                  IntOperands[(j % Len(IntOperands)) + 1]))] \o
    [i \in 1..(Len(ListOperands) * Len(IntOperands)) |->
        Compiled("PBin", PBin("in_op", IntOperands[((i - 1) % Len(IntOperands)) + 1],
                              ListOperands[((i - 1) \div Len(IntOperands)) + 1]))] \o
    [i \in 1..Len(IntOperands) |-> Compiled("PNeg", PNeg(IntOperands[i]))] \o
    <<Compiled("PParens", PParens)>>

\* the hooks set_trace_hook installs: none, one that reads its arguments, one
\* that empties the list it receives, one that appends to it
Hooks == {"None", "observe", "clear", "push"}

TracedPrograms == {"PTrace", "PTraceLoop", "PTraceRaise"}

\* def f(x) return x + 1 end  return f(2)
PTrace ==
    Start(<<FuncDef("f", <<"x">>, <<ReturnStmt(Bin("add", Var("x"), Num(1)))>>),
            ReturnStmt(Call(Var("f"), <<Num(2)>>))>>)

\* for i in range(2): print i end  return 7
PTraceLoop ==
    Start(<<ForStmt("i", Call(Var("range"), <<Num(2)>>), <<PrintStmt(Var("i"))>>),
            ReturnStmt(Num(7))>>)

\* print 1  return 1 % 0
PTraceRaise == Start(<<PrintStmt(Num(1)), ReturnStmt(Bin("mod", Num(1), Num(0)))>>)

TraceCases ==
    <<Compiled("PTrace", PTrace), Compiled("PTraceLoop", PTraceLoop),
      Compiled("PTraceRaise", PTraceRaise)>>

\* def c1() print "c1" return a end  def c2() print "c2" return b end
\* r = c1() op c2()  print "after"  return 7
PShort(op, a, b) ==
    Start(<<FuncDef("c1", <<>>, <<PrintStmt(StrLit("c1")), ReturnStmt(a)>>),
            FuncDef("c2", <<>>, <<PrintStmt(StrLit("c2")), ReturnStmt(b)>>),
            Assign("r", Bin(op, Call(Var("c1"), <<>>), Call(Var("c2"), <<>>))),
            PrintStmt(StrLit("after")),
            ReturnStmt(Num(7))>>)

\* falsy and truthy values of each kind (u is not defined: Nil)
ShortOperands ==
    <<False, True, Num(0), Num(1), StrLit(""), StrLit("a"), ListLit(<<>>),
      ListLit(<<Num(1)>>), DictLit(<<>>), Var("u")>>

ShortCases ==
    [i \in 1..(4 * Len(ShortOperands)) |->
        Compiled("PShort", PShort(IF i % 2 = 1 THEN "and_op" ELSE "or_op",
                                  ShortOperands[((i - 1) \div 4) + 1],
                                  IF ((i - 1) \div 2) % 2 = 0 THEN True ELSE Num(0)))]

\* def f(x) print x end  r = f(1)  print "after"  return r
PFallDef ==
    Start(<<FuncDef("f", <<"x">>, <<PrintStmt(Var("x"))>>),
            Assign("r", Call(Var("f"), <<Num(1)>>)),
            PrintStmt(StrLit("after")),
            ReturnStmt(Var("r"))>>)

\* def f(x) if x: return 1 end end  print f(1)  return f(0)
PFallIf ==
    Start(<<FuncDef("f", <<"x">>, <<IfStmt(<<Clause(Var("x"), <<ReturnStmt(Num(1))>>)>>)>>),
            PrintStmt(Call(Var("f"), <<Num(1)>>)),
            ReturnStmt(Call(Var("f"), <<Num(0)>>))>>)

\* def f(l) for x in l print x end end  return f([1, 2])
PFallFor ==
    Start(<<FuncDef("f", <<"l">>, <<ForStmt("x", Var("l"), <<PrintStmt(Var("x"))>>)>>),
            ReturnStmt(Call(Var("f"), <<ListLit(<<Num(1), Num(2)>>)>>))>>)

\* g = (x, n) => { print x }  return g(2, 3)
PFallLambda ==
    Start(<<Assign("g", LambdaBlock(<<"x", "n">>, <<PrintStmt(Var("x"))>>)),
            ReturnStmt(Call(Var("g"), <<Num(2), Num(3)>>))>>)

\* g = () => 0 and 1  return g()
PExprLambda ==
    Start(<<Assign("g", LambdaExpr(<<>>, Bin("and_op", Num(0), Num(1)))),
            ReturnStmt(Call(Var("g"), <<>>))>>)

FallCases ==
    <<Compiled("PFallDef", PFallDef), Compiled("PFallIf", PFallIf),
      Compiled("PFallFor", PFallFor), Compiled("PFallLambda", PFallLambda),
      Compiled("PExprLambda", PExprLambda)>>

\* def sub(x, y) return x - y end  y = sub(5, 3)  return y
PCallOrder ==
    Start(<<FuncDef("sub", <<"x", "y">>, <<ReturnStmt(Bin("sub", Var("x"), Var("y")))>>),
            Assign("y", Call(Var("sub"), <<Num(5), Num(3)>>)),
            ReturnStmt(Var("y"))>>)

\* def fact(n) if n < 2: return 1 end  return n * fact(n - 1) end
\* y = fact(3)  return y
PCallRecur ==
    Start(<<FuncDef("fact", <<"n">>,
              <<IfStmt(<<Clause(Bin("lt", Var("n"), Num(2)), <<ReturnStmt(Num(1))>>)>>),
                ReturnStmt(Bin("mul", Var("n"),
                               Call(Var("fact"), <<Bin("sub", Var("n"), Num(1))>>)))>>),
            Assign("y", Call(Var("fact"), <<Num(3)>>)),
            ReturnStmt(Var("y"))>>)

\* def f(x) t = x + 1  return t end  def g(x) t = f(x + 1)  return t + x end
\* y = g(1)  return y
PCallNested ==
    Start(<<FuncDef("f", <<"x">>,
              <<Assign("t", Bin("add", Var("x"), Num(1))), ReturnStmt(Var("t"))>>),
            FuncDef("g", <<"x">>,
              <<Assign("t", Call(Var("f"), <<Bin("add", Var("x"), Num(1))>>)),
                ReturnStmt(Bin("add", Var("t"), Var("x")))>>),
            Assign("y", Call(Var("g"), <<Num(1)>>)),
            ReturnStmt(Var("y"))>>)

CallCases ==
    <<Compiled("PCallOrder", PCallOrder), Compiled("PCallRecur", PCallRecur),
      Compiled("PCallNested", PCallNested)>>

\* x = e  print not x  if x then print "t" end  print x or false  return 7
PTruth(e) ==
    Start(<<Assign("x", e),
            PrintStmt(Not(Var("x"))),
            IfStmt(<<Clause(Var("x"), <<PrintStmt(StrLit("t"))>>)>>),
            PrintStmt(Bin("or_op", Var("x"), False)),
            ReturnStmt(Num(7))>>)

\* a false and a true value of each kind, then values of the other kinds: a
\* Function, a native function, an empty and a non-empty range, the sum of
\* two strings, a quotient
TruthOperands ==
    <<Var("u"), False, True, Num(0), Num(1), Neg(Num(2)), StrLit(""), StrLit("a"),
      ListLit(<<>>), ListLit(<<Num(0)>>), DictLit(<<>>),
      DictLit(<<Item("a", Num(0))>>), LambdaExpr(<<>>, Num(0)), Var("len"),
      Call(Var("range"), <<Num(0)>>), Call(Var("range"), <<Num(RangeN)>>),
      Bin("add", StrLit(""), StrLit("")), Bin("add", StrLit("a"), StrLit("")),
      Bin("div", Num(0), Num(2)), Bin("div", Num(1), Num(2))>>

TruthCases ==
    [i \in 1..Len(TruthOperands) |-> Compiled("PTruth", PTruth(TruthOperands[i]))]

\* return [1, {a: 1, b: 2, a: 3}, [2, 3], {}, []]
PMake ==
    Start(<<ReturnStmt(ListLit(<<Num(1),
                                 DictLit(<<Item("a", Num(1)), Item("b", Num(2)),
                                           Item("a", Num(3))>>),
                                 ListLit(<<Num(2), Num(3)>>), DictLit(<<>>),
                                 ListLit(<<>>)>>))>>)

\* a Dict of three pairs, two of them under the keys 1 and "1", and a List of
\* three values, each made above a value that stays on the stack
RawMake ==
    <<Instruction("PUSH", iInteger(5)),
      Instruction("PUSH", iInteger(1)), Instruction("PUSH", iInteger(10)),
      Instruction("PUSH", iString("b")), Instruction("PUSH", iInteger(20)),
      Instruction("PUSH", iString("1")), Instruction("PUSH", iInteger(30)),
      Instruction("MAKE_DICT", iInteger(3)),
      Instruction("PUSH", iInteger(7)), Instruction("PUSH", iInteger(8)),
      Instruction("PUSH", iInteger(9)), Instruction("MAKE_LIST", iInteger(3)),
      Instruction("MAKE_LIST", iInteger(0)), Instruction("MAKE_DICT", iInteger(0)),
      Instruction("MAKE_LIST", iInteger(4)), Instruction("RETURN", iNil)>>

MakeCases == <<Compiled("PMake", PMake), Raw("RawMake", RawMake)>>

\* return l / r, return l % r
PDivMod(k, l, r) == Start(<<ReturnStmt(Bin(k, l, r))>>)

\* dividends of either sign that the divisor divides and does not divide
DivOperands ==
    <<<<Num(7), Num(2)>>, <<Neg(Num(7)), Num(2)>>, <<Num(7), Neg(Num(2))>>,
      <<Neg(Num(7)), Neg(Num(2))>>, <<Num(6), Num(2)>>, <<Num(0), Num(2)>>,
      <<Num(1), Num(2)>>>>

DivCases ==
    [i \in 1..(2 * Len(DivOperands)) |->
        Compiled("PDivMod", PDivMod(IF i % 2 = 1 THEN "div" ELSE "mod",
                                    DivOperands[(i + 1) \div 2][1],
                                    DivOperands[(i + 1) \div 2][2]))]

\* instruction lists that pop more values than the stack holds, with the
\* number of values each is short of
Underflows ==
    <<[code |-> <<Instruction("POP", iNil), Instruction("POP", iNil),
                  Instruction("PUSH", iInteger(1)), Instruction("RETURN", iNil)>>,
       short |-> 2],
      [code |-> <<Instruction("NOT", iNil), Instruction("RETURN", iNil)>>, short |-> 1],
      [code |-> <<Instruction("PRINT", iNil), Instruction("RETURN", iNil)>>, short |-> 2],
      [code |-> <<Instruction("STORE", iString("x")), Instruction("PUSH_GLOBAL", iString("x")),
                  Instruction("RETURN", iNil)>>, short |-> 1],
      [code |-> <<Instruction("JUMP_IF_FALSE", iInteger(3)), Instruction("PUSH", iInteger(1)),
                  Instruction("RETURN", iNil), Instruction("PUSH", iInteger(2)),
                  Instruction("RETURN", iNil)>>, short |-> 1],
      [code |-> <<Instruction("JUMP_IF_TRUE", iInteger(3)), Instruction("PUSH", iInteger(1)),
                  Instruction("RETURN", iNil), Instruction("PUSH", iInteger(2)),
                  Instruction("RETURN", iNil)>>, short |-> 1],
      [code |-> <<Instruction("PUSH", iNil), Instruction("EQ", iNil),
                  Instruction("RETURN", iNil)>>, short |-> 1],
      [code |-> <<Instruction("PUSH", iInteger(1)), Instruction("BIN_ADD", iNil),
                  Instruction("RETURN", iNil)>>, short |-> 1],
      [code |-> <<Instruction("PUSH", iInteger(1)), Instruction("MAKE_LIST", iInteger(3)),
                  Instruction("RETURN", iNil)>>, short |-> 2],
      [code |-> <<Instruction("PUSH", iInteger(1)), Instruction("MAKE_DICT", iInteger(1)),
                  Instruction("RETURN", iNil)>>, short |-> 1],
      [code |-> <<Instruction("CALL_FN", iInteger(0)), Instruction("PUSH", iInteger(1)),
                  Instruction("RETURN", iNil)>>, short |-> 1],
      [code |-> <<Instruction("INDEX", iNil), Instruction("RETURN", iNil)>>, short |-> 2],
      [code |-> <<Instruction("GETATTR", iString("a")), Instruction("RETURN", iNil)>>,
       short |-> 1],
      [code |-> <<Instruction("PUSH", iInteger(1)), Instruction("SET_INDEX", iNil),
                  Instruction("PUSH", iInteger(2)), Instruction("RETURN", iNil)>>,
       short |-> 2],
      [code |-> <<Instruction("RETURN", iNil)>>, short |-> 1]>>

\* `short` times PUSH Nil
Nils(short) == [i \in 1..short |-> Instruction("PUSH", iNil)]

\* each list as it is, and after pushing the Nils it is short of
UnderflowCases ==
    [i \in 1..(2 * Len(Underflows)) |->
        LET u == Underflows[(i + 1) \div 2]
        IN  IF i % 2 = 1
            THEN [origin |-> "raw", name |-> "RawUnderflow", code |-> u.code,
                  pair |-> (i + 1) \div 2]
            ELSE [origin |-> "raw", name |-> "RawPadded", code |-> Nils(u.short) \o u.code,
                  pair |-> (i + 1) \div 2]]

\* a JUMP_IF_TRUE and a JUMP_IF_FALSE that are taken, a JUMP to len(code)
RawJumps ==
    <<Instruction("PUSH", iBool(TRUE)), Instruction("JUMP_IF_TRUE", iInteger(3)),
      Instruction("PUSH", iInteger(1)), Instruction("RETURN", iNil),
      Instruction("PUSH", iBool(FALSE)), Instruction("JUMP_IF_FALSE", iInteger(2)),
      Instruction("RETURN", iNil), Instruction("JUMP", iInteger(1))>>

\* a JUMP beyond len(code)
RawJumpOut == <<Instruction("JUMP", iInteger(5)), Instruction("RETURN", iNil)>>

JumpCases == <<Raw("RawJumps", RawJumps), Raw("RawJumpOut", RawJumpOut)>>

Programs ==
    <<Compiled("PArith", PArith), Compiled("PArith2", PArith2), Compiled("PCompare", PCompare), Compiled("PForPrint", PForPrint),
      Compiled("PForReturn", PForReturn), Compiled("PForReturnFn", PForReturnFn), Compiled("PGreet", PGreet),
      Compiled("PAddAppend", PAddAppend), Compiled("PLambda", PLambda), Compiled("PListSet", PListSet), Compiled("PPop", PPop),
      Compiled("PEach", PEach), Compiled("PDict", PDict), Compiled("PNested", PNested), Compiled("PArityFewer", PArityFewer),
      Compiled("PArityMore", PArityMore), Compiled("PArityNested", PArityNested), Compiled("PArityBound", PArityBound),
      Compiled("PArityBoundFn", PArityBoundFn), Compiled("PMap", PMap), Compiled("PArityNative", PArityNative), Compiled("PLen", PLen),
      Compiled("PFmt2", PFmt2), Compiled("PFmt3", PFmt3), Compiled("PJoin", PJoin), Compiled("PDictIntKey", PDictIntKey),
      Compiled("PDictStore", PDictStore), Compiled("PDictAbsentInt", PDictAbsentInt), Compiled("PDictAbsentStr", PDictAbsentStr),
      Raw("RawMakeDict", RawMakeDict), Compiled("PAliasList", PAliasList), Compiled("PAliasElement", PAliasElement),
      Compiled("PAliasLocal", PAliasLocal), Compiled("PHopIntKey", PHopIntKey), Compiled("PSetAttr", PSetAttr),
      Raw("RawGetItem", RawGetItem), Raw("RawCall", RawCall)>>
    \o [i \in 1..Len(NonCallables) |-> Compiled("PCallNonCallable", PCallNonCallable(NonCallables[i]))]
    \o LogicalCases
    \o ScopeCases
    \o FrameCases
    \o LoopCases
    \o IfCases
    \o ReturnCases
    \o ExecCases
    \o AttrCases
    \o RecoverCases
    \o AddCases
    \o BinCases
    \o TraceCases
    \o ShortCases
    \o FallCases
    \o CallCases
    \o TruthCases
    \o MakeCases
    \o DivCases
    \o UnderflowCases
    \o JumpCases

(***************************************************************************)
(* The caller: conftest.py's eval_policy (compile, Interpreter(), exec)    *)
(* and test_serde_roudtrip.py (serialize, deserialize, _exec).             *)
(***************************************************************************)
\* Interpreter.__init__
FreshInterpreter ==
    /\ stack' = <<>>
    /\ globals' = StdGlobals
    /\ local_frames' = <<>>
    /\ heap' = <<>>
    /\ stdout' = <<>>
    /\ result' = None
    /\ error' = ""
    /\ trace' = <<>>
    /\ hooked' = FALSE

Outcome ==
    [status |-> status, result |-> result, error |-> error, globals |-> globals,
     stdout |-> stdout, heap |-> heap, stack |-> stack]

Init ==
    /\ prog \in 1..Len(Programs)
    /\ origin = Programs[prog].origin
    /\ mode \in {"direct", "roundtrip"}
    /\ run = 1
    /\ first = [status |-> "none"]
    /\ code = IF Programs[prog].origin = "compiler" THEN compile(Programs[prog].tree)
              ELSE Programs[prog].code
    /\ serialized = None
    /\ decoded = None
    /\ call_stack = <<>>
    /\ stack = <<>>
    /\ globals = StdGlobals
    /\ local_frames = <<>>
    /\ heap = <<>>
    /\ method_table \in IF Programs[prog].name = "PAttr"
                       THEN {StdMethods, RegisteredMethods} ELSE {StdMethods}
    /\ stdout = <<>>
    /\ status = "idle"
    /\ result = None
    /\ error = ""
    /\ trace_hook \in IF Programs[prog].name \in TracedPrograms THEN Hooks ELSE {"None"}
    /\ trace = <<>>
    /\ hooked = FALSE
    /\ meta_arg = None
    /\ peeked = None
    /\ listing = None

\* blob = serialize(code)
Serialize ==
    /\ mode = "roundtrip"
    /\ status = "idle"
    /\ serialized = None
    /\ serialized' = serialize(code, meta_arg)
    /\ UNCHANGED <<prog, origin, mode, run, first, code, decoded, call_stack, stack,
                   globals, local_frames, heap, method_table, stdout, status, result,
                   error, trace_hook, trace, hooked, meta_arg, peeked,
                   listing>>

\* code2 = deserialize(blob)
Deserialize ==
    /\ serialized # None
    /\ serialized.ok
    /\ decoded = None
    /\ decoded' = deserialize(serialized.v)
    /\ UNCHANGED <<prog, origin, mode, run, first, code, serialized, call_stack, stack,
                   globals, local_frames, heap, method_table, stdout, status, result,
                   error, trace_hook, trace, hooked, meta_arg, peeked,
                   listing>>

\* interp.exec(code) on the new interpreter
Exec ==
    /\ status = "idle"
    /\ mode = "roundtrip" => decoded # None /\ decoded.ok
    /\ status' = "running"
    /\ call_stack' = <<[code |-> code, pc |-> 0]>>
    /\ hooked' = FALSE
    /\ UNCHANGED <<stack, globals, local_frames, heap, stdout, result, error, driver>>

\* _exec(code2): a new interpreter executes the deserialized instructions
ExecDecoded ==
    /\ mode = "roundtrip"
    /\ run = 1
    /\ status \in {"done", "error"}
    /\ first' = Outcome
    /\ run' = 2
    /\ FreshInterpreter
    /\ status' = "running"
    /\ call_stack' = <<[code |-> decoded.v, pc |-> 0]>>
    /\ UNCHANGED <<prog, origin, mode, code, serialized, decoded, method_table,
                   trace_hook, meta_arg, peeked, listing>>

(***************************************************************************)
(* The serializer on its own: serialize and deserialize applied to         *)
(* instruction lists drawn from every kind of argument.                    *)
(***************************************************************************)
MaxLen == 2

\* (x, n) => x + n, and a Function whose body holds it
InnerFunction ==
    iFunction(<<Instruction("PUSH_LOCAL", iString("x")), Instruction("PUSH_LOCAL", iString("n")),
                Instruction("BIN_ADD", iNil), Instruction("RETURN", iNil)>>, 2, <<"x", "n">>)

OuterFunction ==
    iFunction(<<Instruction("PUSH", InnerFunction), Instruction("RETURN", iNil),
                Instruction("PUSH", iNil), Instruction("RETURN", iNil)>>, 0, <<>>)

\* Integers on both sides of zero and of the one-byte varints (zig-zag 127
\* and 128), Bools, Strings (empty, ASCII, two-byte UTF-8), Functions
SerdeInstrs ==
    {Instruction("RETURN", iNil), Instruction("PUSH", iInteger(0)),
     Instruction("JUMP", iInteger(-5)), Instruction("JUMP_IF_FALSE", iInteger(5)),
     Instruction("PUSH", iInteger(-64)), Instruction("PUSH", iInteger(64)),
     Instruction("PUSH", iInteger(-300)), Instruction("PUSH", iBool(TRUE)),
     Instruction("PUSH", iBool(FALSE)), Instruction("PUSH", iString("")),
     Instruction("STORE", iString("xs")), Instruction("PUSH", iString("é")),
     Instruction("PUSH", InnerFunction), Instruction("PUSH", OuterFunction)}

\* a List, a Dict, a native function, a bound method and a host object as
\* argument, the opcode without a byte (CALL), and Functions whose code, or
\* whose nested Function's code, holds one of these
ListInFunction ==
    iFunction(<<Instruction("PUSH", iList(1)), Instruction("RETURN", iNil)>>, 0, <<>>)

CallInNested ==
    iFunction(<<Instruction("PUSH", iFunction(<<Instruction("CALL", iNil)>>, 1, <<"x">>)),
                Instruction("RETURN", iNil)>>, 0, <<>>)

RejectedInstrs ==
    {Instruction("PUSH", iList(1)), Instruction("PUSH", iDict(1)),
     Instruction("PUSH", iPyfunction("host_fn", 1, FALSE)),
     Instruction("PUSH", iBoundMethod(InnerFunction, iInteger(1))),
     Instruction("PUSH", iPyRange(2)), Instruction("CALL", iNil),
     Instruction("PUSH", ListInFunction), Instruction("PUSH", CallInNested)}

SerdeCodes == UNION {[1..len -> SerdeInstrs \cup RejectedInstrs] : len \in 0..MaxLen}

InitSerde ==
    /\ prog = 0
    /\ origin = "raw"
    /\ mode = "roundtrip"
    /\ run = 1
    /\ first = [status |-> "none"]
    /\ code \in SerdeCodes
    /\ serialized = None
    /\ decoded = None
    /\ call_stack = <<>>
    /\ stack = <<>>
    /\ globals = StdGlobals
    /\ local_frames = <<>>
    /\ heap = <<>>
    /\ method_table = StdMethods
    /\ stdout = <<>>
    /\ status = "idle"
    /\ result = None
    /\ error = ""
    /\ trace_hook = "None"
    /\ trace = <<>>
    /\ hooked = FALSE
    /\ meta_arg = None
    /\ peeked = None
    /\ listing = None

NextSerde ==
    \/ Serialize
    \/ Deserialize

SpecSerde == InitSerde /\ [][NextSerde]_vars

(***************************************************************************)
(* The blob handed to deserialize comes from outside: a caller can receive *)
(* what serialize wrote, that blob with one byte changed or cut short, and *)
(* what _pack writes for another body or with other flags.                 *)
(***************************************************************************)
ContainerCodes ==
    {<<>>,
     <<Instruction("PUSH", iInteger(5)), Instruction("RETURN", iNil)>>,
     <<Instruction("PUSH", InnerFunction), Instruction("RETURN", iNil)>>}

CorruptBytes == {0, 1, 127}

FlagValues == {0, 1, 256}

\* bodies with a byte that is no opcode: first, after an instruction, in the
\* code of a Function
BadOpcodeBodies ==
    {<<255, TAG_NIL>>, <<7, TAG_NIL>>,
     <<OPCODE_TO_BYTE.PUSH, TAG_NIL, 255, TAG_NIL>>,
     <<OPCODE_TO_BYTE.PUSH, TAG_FUNC, 0, 2, 255, TAG_NIL>>}

\* bodies with an argument tag that is none of the five
BadTagBodies ==
    {<<OPCODE_TO_BYTE.PUSH, 5>>, <<OPCODE_TO_BYTE.PUSH, 255>>,
     <<OPCODE_TO_BYTE.RETURN, TAG_NIL, OPCODE_TO_BYTE.PUSH, 9>>,
     <<OPCODE_TO_BYTE.PUSH, TAG_FUNC, 0, 2, OPCODE_TO_BYTE.PUSH, 9>>}

SetByte(blob, p, v) == [blob EXCEPT ![p + 1] = v]

Received(blob, body) ==
    {SetByte(blob, p, v) : p \in 0..(Len(blob) - 1), v \in CorruptBytes}
    \cup {SubSeq(blob, 1, n) : n \in 0..(Len(blob) - 1)}
    \cup {_pack(b, None, f) : b \in BadOpcodeBodies \cup BadTagBodies \cup {body},
                              f \in FlagValues}

\* the blob is replaced, once, before deserialize is called
Corrupt ==
    /\ serialized # None
    /\ decoded = None
    /\ serialized = serialize(code, None)
    /\ \E blob \in Received(serialized.v, _enc_stream(code).v) : serialized' = Ok(blob)
    /\ UNCHANGED <<prog, origin, mode, run, first, code, decoded, call_stack, stack,
                   globals, local_frames, heap, method_table, stdout, status, result,
                   error, trace_hook, trace, hooked, meta_arg, peeked,
                   listing>>

InitContainer ==
    /\ prog = 0
    /\ origin = "raw"
    /\ mode = "roundtrip"
    /\ run = 1
    /\ first = [status |-> "none"]
    /\ code \in ContainerCodes
    /\ serialized = None
    /\ decoded = None
    /\ call_stack = <<>>
    /\ stack = <<>>
    /\ globals = StdGlobals
    /\ local_frames = <<>>
    /\ heap = <<>>
    /\ method_table = StdMethods
    /\ stdout = <<>>
    /\ status = "idle"
    /\ result = None
    /\ error = ""
    /\ trace_hook = "None"
    /\ trace = <<>>
    /\ hooked = FALSE
    /\ meta_arg = None
    /\ peeked = None
    /\ listing = None

NextContainer ==
    \/ Serialize
    \/ Corrupt
    \/ Deserialize

SpecContainer == InitContainer /\ [][NextContainer]_vars

(***************************************************************************)
(* The disassembler (disasm.py).  A line of the listing is the tuple of    *)
(* the fields its f-string joins: <<index, op.name, a, j>>, or             *)
(* <<index, op.name>> when a is empty.                                     *)
(***************************************************************************)
\* repr() of the payloads the model has as text
_arg_str(a) ==
    CASE IsInt(a) -> "[iInt] " \o ToString(a.n)
      [] a.t = "str" -> "[iStr] '" \o a.s \o "'"
      [] a.t = "bool" -> "[iBool] " \o (IF a.b THEN "True" ELSE "False")
      [] a.t = "nil" -> "[iNil]"
      [] OTHER -> "[" \o a.t \o "]"

_jump_target(idx, op, a, code_len) ==
    IF ~IsInt(a) THEN ""
    ELSE LET rel == a.n
             tgt == idx + 1 + rel
         IN  IF op \in {"JUMP", "JUMP_IF_FALSE"}
             THEN IF 0 <= tgt /\ tgt < code_len
                  THEN " -> @" \o ToString(tgt)
                  ELSE " -> @" \o ToString(tgt) \o " (out-of-range)"
             ELSE ""

\* f"{i:04d}"
Index4(i) ==
    (IF i < 10 THEN "000" ELSE IF i < 100 THEN "00" ELSE IF i < 1000 THEN "0" ELSE "")
        \o ToString(i)

disassemble(instrs) ==
    [l \in 1..Len(instrs) |->
        LET i == l - 1
            j == _jump_target(i, instrs[l].op, instrs[l].arg, Len(instrs))
            a == _arg_str(instrs[l].arg)
        IN  IF a # "" THEN <<Index4(i), instrs[l].op, a, j>>
            ELSE <<Index4(i), instrs[l].op>>]

\* the programs a caller lists before executing them
DisassembledPrograms == {"PTruth", "RawJumps", "RawJumpOut"}

\* print_dis(code)
Disassemble ==
    /\ status = "idle"
    /\ listing = None
    /\ Programs[prog].name \in DisassembledPrograms
    /\ listing' = disassemble(code)
    /\ UNCHANGED <<prog, origin, mode, run, first, code, serialized, decoded, call_stack,
                   stack, globals, local_frames, heap, method_table, stdout, status,
                   result, error, trace_hook, trace, hooked, meta_arg, peeked>>

(***************************************************************************)
(* Metadata: serialize(code, meta=m), then peek_metadata and deserialize   *)
(* on the blob, or on the blob followed by other bytes.                    *)
(***************************************************************************)
\* the metadata objects of the scenarios: none given, {}, one and two members
Metas ==
    {None, Meta(<<>>), Meta(<<<<"name", "policy">>>>),
     Meta(<<<<"name", "policy">>, <<"k", "v">>>>), Meta(<<<<"", "">>>>)}

\* what a caller may append to a blob
Trailers == {<<0>>, <<80, 80, 66, 67>>, <<120, 156, 3, 0>>}

\* the caller hands over the blob followed by other bytes
Extend ==
    /\ serialized # None
    /\ serialized = serialize(code, meta_arg)
    /\ serialized.ok
    /\ decoded = None
    /\ peeked = None
    /\ \E tail \in Trailers : serialized' = Ok(serialized.v \o tail)
    /\ UNCHANGED <<prog, origin, mode, run, first, code, decoded, call_stack, stack,
                   globals, local_frames, heap, method_table, stdout, status, result,
                   error, trace_hook, trace, hooked, meta_arg, peeked,
                   listing>>

\* m = peek_metadata(blob)
PeekMetadata ==
    /\ serialized # None
    /\ serialized.ok
    /\ peeked = None
    /\ peeked' = peek_metadata(serialized.v)
    /\ UNCHANGED <<prog, origin, mode, run, first, code, serialized, decoded, call_stack,
                   stack, globals, local_frames, heap, method_table, stdout, status,
                   result, error, trace_hook, trace, hooked, meta_arg, listing>>

InitMeta ==
    /\ prog = 0
    /\ origin = "raw"
    /\ mode = "roundtrip"
    /\ run = 1
    /\ first = [status |-> "none"]
    /\ code \in ContainerCodes
    /\ serialized = None
    /\ decoded = None
    /\ call_stack = <<>>
    /\ stack = <<>>
    /\ globals = StdGlobals
    /\ local_frames = <<>>
    /\ heap = <<>>
    /\ method_table = StdMethods
    /\ stdout = <<>>
    /\ status = "idle"
    /\ result = None
    /\ error = ""
    /\ trace_hook = "None"
    /\ trace = <<>>
    /\ hooked = FALSE
    /\ meta_arg \in Metas
    /\ peeked = None
    /\ listing = None

NextMeta ==
    \/ Serialize
    \/ Extend
    \/ PeekMetadata
    \/ Deserialize

SpecMeta == InitMeta /\ [][NextMeta]_vars

Next ==
    \/ Serialize
    \/ Deserialize
    \/ Exec
    \/ ExecDecoded
    \/ OpPUSH
    \/ OpSTORE
    \/ OpPUSH_GLOBAL
    \/ OpPUSH_LOCAL
    \/ OpSTORE_LOCAL
    \/ OpMAKE_DICT
    \/ OpMAKE_LIST
    \/ OpPOP
    \/ OpNOT
    \/ OpITER_INIT
    \/ OpITER_NEXT
    \/ OpBIN_ADD
    \/ OpBIN_SUB
    \/ OpBIN_MUL
    \/ OpBIN_DIV
    \/ OpBIN_MOD
    \/ OpEQ
    \/ OpNEQ
    \/ OpGT
    \/ OpLT
    \/ OpGTE
    \/ OpLTE
    \/ OpCALL_FN
    \/ OpGETATTR
    \/ OpGETITEM
    \/ OpBIN_IN
    \/ OpPRINT
    \/ OpJUMP
    \/ OpJUMP_IF_TRUE
    \/ OpJUMP_IF_FALSE
    \/ OpINDEX
    \/ OpSET_INDEX
    \/ OpSET_ATTR
    \/ OpRETURN
    \/ Unhandled
    \/ FallOffEnd
    \/ TraceHook
    \/ Disassemble

Spec == Init /\ [][Next]_vars

(***************************************************************************)
(* Properties.                                                             *)
(***************************************************************************)
Case == Programs[prog]

Ended == status \in {"done", "error"}

\* C1: when exec returns normally from a program the compiler produced, the
\* operand stack is empty -- also when the return is executed inside a
\* for-loop body, at top level or in a called function.
C1_StackEmptyOnReturn == (origin = "compiler" /\ status = "done") => stack = <<>>

\* C2: deserialize(serialize(code)) is code, instruction by instruction:
\* opcodes, argument variants and payloads (Nil, Integers of either sign,
\* Bools, Strings, Functions with their body, arity and parameter names).
C2_RoundTrip == decoded # None => decoded.ok /\ decoded.v = code

\* a list holding a negative two-byte Integer and a Function nested in a
\* Function has gone through serialize and deserialize
C2_Reached ==
    /\ decoded # None
    /\ \E i \in 1..Len(code) : code[i].arg = OuterFunction
    /\ \E i \in 1..Len(code) : code[i].arg = iInteger(-300)

\* C3: executing deserialize(serialize(code)) on a new interpreter gives
\* what executing code on a new interpreter gives: the same result (or the
\* same error), the same globals and the same printed values.
C3_SameExecution ==
    (origin = "compiler" /\ run = 2 /\ Ended) =>
        /\ status = first.status
        /\ result = first.result
        /\ error = first.error
        /\ globals = first.globals
        /\ stdout = first.stdout
        /\ heap = first.heap

\* the second run of a program with a loop, calls and a List has returned
C3_Reached ==
    /\ origin = "compiler"
    /\ run = 2
    /\ status = "done"
    /\ Case.name = "PAddAppend"
    /\ result = iInteger(11)
    /\ first.result = iInteger(11)

\* what CALL_FN(n) finds on the stack: the n arguments in push order and,
\* under them, the callee
CallArgs == popn(stack, arg.n)

Callee == pop(poppedn(stack, arg.n))

ArityMismatch == status' = "error" /\ error' = "RuntimeError: arity mismatch"

\* C4: CALL_FN(n) on a Function whose arity is not n ends the execution with
\* an arity mismatch: no frame is pushed, no instruction of the body runs
\* (the failed execution takes no further step of its own).
C4_FunctionArity ==
    [][/\ (At("CALL_FN") /\ Callee.t = "func" /\ Callee.n_params # arg.n) =>
              /\ ArityMismatch
              /\ local_frames' = local_frames
              /\ call_stack' = call_stack
       /\ status = "error" => (run = 1 /\ run' = 2 /\ local_frames' = <<>>)]_vars

\* add(1) has failed between the two prints, add taking two parameters
C4_Reached ==
    /\ Case.name = "PArityFewer"
    /\ status = "error"
    /\ error = "RuntimeError: arity mismatch"
    /\ cur.code[pc + 1] = Instruction("CALL_FN", iInteger(1))
    /\ globals["add"].t = "func"
    /\ globals["add"].n_params = 2
    /\ local_frames = <<>>
    /\ stdout = <<iString("before")>>

\* C5: CALL_FN on a callee that is not a Function, a NativeFunction or a
\* BoundMethod ends the execution with an error.
C5_NonCallableFails ==
    [][(At("CALL_FN") /\ Callee.t \notin {"func", "pyfunc", "method"}) =>
           status' = "error"]_vars

Called == IF Callee.t = "method" THEN Callee.func ELSE Callee

Passed == IF Callee.t = "method" THEN arg.n + 1 ELSE arg.n

\* C7: CALL_FN on a native function declared variadic succeeds whenever at
\* least its arity is passed; on any other native function it fails with an
\* arity mismatch unless exactly its arity is passed.
C7_VariadicNative ==
    [][(At("CALL_FN") /\ Called.t = "pyfunc") =>
           IF Called.varargs
           THEN Passed >= Called.n_params => status' = "running"
           ELSE Passed # Called.n_params => ArityMismatch]_vars

\* the expression `a op b` that a case of LogicalCases returns
Logical == Case.tree.children[2].expr

\* bool() of the value of a literal
LitTruthy(e) ==
    CASE e.k = "number" -> e.v # 0
      [] e.k = "string" -> e.v # ""
      [] e.k = "true" -> TRUE
      [] e.k = "false" -> FALSE
      [] e.k = "list" -> e.items # <<>>

\* v is the value of the literal e (of a list literal: a List of its numbers)
IsLit(v, e) ==
    CASE e.k = "number" -> v = iInteger(e.v)
      [] e.k = "string" -> v = iString(e.v)
      [] e.k = "true" -> v = iBool(TRUE)
      [] e.k = "false" -> v = iBool(FALSE)
      [] e.k = "list" ->
            /\ v.t = "list"
            /\ heap[v.ref].items = [i \in 1..Len(e.items) |-> iInteger(e.items[i].v)]

LogicalTruth ==
    IF Logical.k = "and_op" THEN LitTruthy(Logical.l) /\ LitTruthy(Logical.r)
    ELSE LitTruthy(Logical.l) \/ LitTruthy(Logical.r)

\* `return a op b` is about to pop the value of `a op b`
LogicalDone == origin = "compiler" /\ Case.name = "PLogical" /\ At("RETURN")

\* C8 as stated: `a and b` and `a or b` leave exactly one value, the Bool
\* truthy(a) AND truthy(b), resp. truthy(a) OR truthy(b).
C8_LogicalIsBool ==
    LogicalDone => Len(stack) = 1 /\ stack[1] = iBool(LogicalTruth)

\* C8: `a and b` and `a or b` leave exactly one value, as truthy as
\* truthy(a) AND truthy(b), resp. truthy(a) OR truthy(b): Bool false for
\* `and` with a falsy a, Bool true for `or` with a truthy a, and the value
\* of b itself in every other case.
C8_LogicalShortCircuit ==
    LogicalDone =>
        /\ Len(stack) = 1
        /\ truthy(stack[1], heap) = LogicalTruth
        /\ IF Logical.k = "and_op"
           THEN IF LitTruthy(Logical.l) THEN IsLit(stack[1], Logical.r)
                ELSE stack[1] = iBool(FALSE)
           ELSE IF LitTruthy(Logical.l) THEN stack[1] = iBool(TRUE)
                ELSE IsLit(stack[1], Logical.r)

\* `1 and "x"` has left the String x
C8_Reached ==
    /\ LogicalDone
    /\ Logical = Bin("and_op", Num(1), StrLit("x"))
    /\ stack = <<iString("x")>>

\* what INDEX and SET_INDEX find on the stack
IndexKey == pop(stack)

IndexContainer == pop(popped(stack))

SetKey == pop(popped(stack))

SetContainer == pop(popped(popped(stack)))

\* C9: a key that is not a string is turned into its text when it is stored
\* in a Dict and when it is looked up: SET_INDEX(d, k, v) binds str(k) to v,
\* and INDEX(d, k) pushes what str(k) is bound to, Nil when it is absent.
C9_KeyCoercion ==
    [][/\ (At("SET_INDEX") /\ SetContainer.t = "dict" /\ SetKey.t # "str") =>
              /\ status' = "running"
              /\ DictGet(heap'[SetContainer.ref], PyStr(SetKey)) = pop(stack)
       /\ (At("INDEX") /\ IndexContainer.t = "dict" /\ IndexKey.t # "str") =>
              /\ status' = "running"
              /\ stack' = push(popped(popped(stack)),
                               DictGet(heap[IndexContainer.ref], PyStr(IndexKey)))]_vars

\* the programs that assign through an lvalue and return the element read
\* back through another reference to the same container
LvalueRead ==
    [PListSet |-> iInteger(99), PNested |-> iString("alice"),
     PAliasList |-> iInteger(5), PAliasElement |-> iInteger(7),
     PAliasLocal |-> iInteger(9), PHopIntKey |-> iInteger(9)]

\* C10: `base[k1]...[km] := v` changes the container the first m - 1 hops
\* reach; the element is seen through every other reference to that
\* container and the operand stack is as deep after the statement as before.
C10_LvalueAssign ==
    (origin = "compiler" /\ Case.name \in DOMAIN LvalueRead /\ Ended) =>
        /\ status = "done"
        /\ result = LvalueRead[Case.name]
        /\ stack = <<>>

\* what each program that reads a free name in a lambda returns: the global
\* of that name when the lambda is called, Nil without one
CaptureResult ==
    [PCaptureNil |-> iNil, PCaptureGlobal |-> iInteger(7), PCaptureLate |-> iInteger(5)]

FrameResult ==
    [PFrameAssign |-> [result |-> iInteger(1), stdout |-> <<iInteger(2)>>],
     PFrameFor |-> [result |-> iInteger(9),
                    stdout |-> <<iInteger(0), iInteger(1), iInteger(1)>>]]

LoopPrints ==
    [PLoopRange |-> [i \in 1..RangeN |-> iInteger(i - 1)],
     PLoopList |-> <<iString("a"), iString("b")>>,
     PLoopEmpty |-> <<>>,
     PLoopDict |-> <<iString("a"), iString("b")>>,
     PLoopNested |-> <<iString("a"), iInteger(0), iString("a"), iInteger(1)>>,
     PLoopFn |-> <<iInteger(2), iInteger(3)>>,
     PLoopCall |-> <<>>]

\* the POP gen_for_stmt emits at exit_idx: the instruction before it is the
\* JUMP back to the loop's ITER_NEXT
LoopExit ==
    /\ At("POP") /\ pc >= 1
    /\ cur.code[pc].op = "JUMP"
    /\ pc + cur.code[pc].arg.n \in 1..Len(cur.code)
    /\ cur.code[pc + cur.code[pc].arg.n].op = "ITER_NEXT"

\* C13: in a compiled program the iterator is on top of the stack at every
\* ITER_NEXT step and at the exit POP of a loop, and a loop whose body neither
\* returns nor changes the iterable runs its body once per element, in order,
\* and ends: the exit POP leaves the stack at its depth before the loop (the
\* iterators of the enclosing loops only) and the program runs to its return.
C13_ForLoop ==
    [][/\ (origin = "compiler" /\ (At("ITER_NEXT") \/ LoopExit)) => IsIter(pop(stack))
       /\ (origin = "compiler" /\ Case.name \in DOMAIN LoopPrints /\ LoopExit) =>
             \A i \in 1..Len(stack') : IsIter(stack'[i])
       /\ (origin = "compiler" /\ Case.name \in DOMAIN LoopPrints
             /\ status' \in {"done", "error"}) =>
             /\ status' = "done"
             /\ result' = iInteger(7)
             /\ stdout' = LoopPrints[Case.name]]_vars

IfNode == Case.tree.children[3]

Cond1 == Case.tree.children[1].body.children[2].expr

Cond2 == Case.tree.children[2].body.children[2].expr

ElsePrints == IF IfNode.else_block # None THEN <<iString("else")>> ELSE <<>>

\* c1 is evaluated; the first clause with a truthy condition runs its body and
\* no later condition is evaluated; with none the else body runs, if there is one
IfPrints ==
    <<iString("c1")>> \o
    (IF LitTruthy(Cond1) THEN <<iString("then")>>
     ELSE IF Len(IfNode.clauses) = 2
     THEN <<iString("c2")>> \o
          (IF LitTruthy(Cond2) THEN <<iString("elif")>> ELSE ElsePrints)
     ELSE ElsePrints) \o
    <<iString("after")>>

\* C14: an if / elif / else statement evaluates its conditions in order up to
\* the first truthy one, executes the body of that clause and no other, the
\* else body when no condition is truthy and none when there is no else, and
\* goes on with the statement after it: the output so far is always a prefix
\* of that sequence, and the program ends by its return with all of it.
C14_IfStmt ==
    [][(origin = "compiler" /\ Case.name = "PIf") =>
          /\ Len(stdout') <= Len(IfPrints)
          /\ stdout' = SubSeq(IfPrints, 1, Len(stdout'))
          /\ status' \in {"done", "error"} =>
                /\ status' = "done"
                /\ result' = iInteger(7)
                /\ stdout' = IfPrints]_vars

\* the elif clause ran: c1 was falsy, c2 truthy, and the else body was skipped
C14_Reached ==
    /\ origin = "compiler" /\ Case.name = "PIf" /\ status = "done"
    /\ Len(IfNode.clauses) = 2 /\ IfNode.else_block # None
    /\ ~LitTruthy(Cond1) /\ LitTruthy(Cond2)
    /\ stdout = <<iString("c1"), iString("c2"), iString("elif"), iString("after")>>

\* what each program does when every statement control reaches is executed
ReturnResult ==
    [PAfterReturn |-> [result |-> iInteger(1), stdout |-> <<>>],
     PIfElseReturnTaken |-> [result |-> iInteger(1), stdout |-> <<>>],
     PIfElseReturn |-> [result |-> iInteger(7),
                        stdout |-> <<iString("then"), iString("after")>>],
     PIfBothReturnThen |-> [result |-> iInteger(1), stdout |-> <<>>],
     PIfBothReturnElse |-> [result |-> iInteger(2), stdout |-> <<>>],
     PIfElseReturnFn |-> [result |-> iInteger(7),
                          stdout |-> <<iString("then"), iString("after")>>]]

\* C15: the statements the compiler leaves out after a RETURN are statements
\* control cannot reach: a program prints and returns what it does when every
\* reachable statement is executed.  The statement after an if / else whose
\* else branch ends with a return is executed when the branch taken does not
\* return.
C15_OmittedUnreachable ==
    [][(origin = "compiler" /\ Case.name \in DOMAIN ReturnResult
          /\ status' \in {"done", "error"}) =>
             /\ status' = "done"
             /\ result' = ReturnResult[Case.name].result
             /\ stdout' = ReturnResult[Case.name].stdout]_vars

ExecResult ==
    [RawAfterReturn |-> iInteger(1), RawFallOff |-> iNil, RawEmpty |-> iNil,
     RawFnAfterReturn |-> iInteger(2), RawFnFallOff |-> iNil]

\* C16: a RETURN step ends the exec it is in with the value popped from the
\* top of the stack: the outermost exec is done with it as the result, an
\* exec that CALL_FN started hands it to its caller, which pushes it.  An exec
\* whose pc is at len(code) ends with Nil and leaves the stack alone.  Once
\* exec has returned no instruction is executed on that interpreter: stack,
\* globals, frames, heap, output and result stay as they are.
C16_ReturnStops ==
    [][/\ (At("RETURN") /\ Len(call_stack) = 1) =>
             status' = "done" /\ result' = pop(stack) /\ stack' = popped(stack)
       /\ (At("RETURN") /\ Len(call_stack) > 1) =>
             /\ status' = "running"
             /\ call_stack' = [i \in 1..(Len(call_stack) - 1) |->
                                  IF i = Len(call_stack) - 1
                                  THEN [call_stack[i] EXCEPT !.pc = @ + 1]
                                  ELSE call_stack[i]]
             /\ stack' = push(popped(stack), pop(stack))
       /\ (status = "running" /\ pc >= Len(cur.code) /\ Len(call_stack) = 1) =>
             status' = "done" /\ result' = iNil /\ stack' = stack
       /\ (status = "running" /\ pc >= Len(cur.code) /\ Len(call_stack) > 1) =>
             /\ status' = "running"
             /\ Len(call_stack') = Len(call_stack) - 1
             /\ stack' = push(stack, iNil)
       /\ (status = "done" /\ run' = run) =>
             UNCHANGED <<status, result, call_stack, stack, globals, local_frames,
                         heap, stdout>>
       /\ (Case.name \in DOMAIN ExecResult /\ status' \in {"done", "error"}) =>
             status' = "done" /\ result' = ExecResult[Case.name] /\ stdout' = <<>>]_vars

\* exec has returned 1 from the RETURN at index 1; four instructions follow it
C16_Reached ==
    /\ Case.name = "RawAfterReturn" /\ status = "done"
    /\ result = iInteger(1) /\ stdout = <<>> /\ stack = <<>>
    /\ pc = 1 /\ Len(cur.code) = 6

\* the classes of the receiver's MRO whose table has the name
AttrHits(r, name) ==
    {i \in 1..Len(Mro(r)) :
        /\ Mro(r)[i] \in DOMAIN method_table
        /\ name \in DOMAIN method_table[Mro(r)[i]]}

\* C17: a GETATTR step never ends the execution: it goes on to the next
\* instruction with the receiver replaced by one value and nothing else
\* changed.  The value is the bound method of the function found in the
\* method table of the first class of the receiver's MRO that has the name,
\* whatever host attribute the receiver has under that name; with no such
\* class it is the lifted host attribute, and Nil when the receiver has none.
C17_GetAttr ==
    [][At("GETATTR") =>
          /\ status' = "running" /\ error' = error
          /\ call_stack' = [call_stack EXCEPT ![Len(call_stack)].pc = pc + 1]
          /\ stack' = push(popped(stack), pop(stack'))
          /\ UNCHANGED <<globals, local_frames, heap, stdout, method_table>>
          /\ AttrHits(pop(stack), arg.s) # {} =>
                \E i \in AttrHits(pop(stack), arg.s) :
                    /\ \A j \in AttrHits(pop(stack), arg.s) : i <= j
                    /\ pop(stack') =
                          iBoundMethod(method_table[Mro(pop(stack))[i]][arg.s], pop(stack))
          /\ AttrHits(pop(stack), arg.s) = {} => pop(stack') = HostAttr(pop(stack), arg.s)
          /\ (IsInt(pop(stack)) /\ arg.s = "val") =>
                pop(stack') = IF method_table = StdMethods THEN pop(stack)
                              ELSE iBoundMethod(RegisteredMethods.iObject.val, pop(stack))
          /\ (pop(stack).t = "list" /\ arg.s = "append") =>
                pop(stack') = iBoundMethod(StdMethods.iList.append, pop(stack))
          /\ arg.s = "zz" => pop(stack') = iNil]_vars

\* o.val of an Integer was resolved in the table registered for iObject and
\* not on the host object
C17_Reached ==
    /\ Case.name = "PAttr" /\ status = "done"
    /\ method_table = RegisteredMethods
    /\ result = iBoundMethod(RegisteredMethods.iObject.val, iInteger(5))

\* host objects without __getitem__ and without membership
NoContainer(v) == v.t \in {"nil", "bool", "pyfunc"} \/ IsInt(v)

\* the lookup container[key] misses: a List index out of range, a Dict without
\* the string key, a pair with no indexing
IndexMiss(container, key) ==
    \/ /\ container.t = "list" /\ IsInt(key)
       /\ \/ key.n >= Len(heap[container.ref].items)
          \/ key.n < 0 - Len(heap[container.ref].items)
    \/ /\ container.t = "dict" /\ key.t = "str"
       /\ \A i \in 1..Len(heap[container.ref].keys) : heap[container.ref].keys[i] # key.s
    \/ NoContainer(container)
    \/ container.t = "list" /\ key.t \in {"str", "nil", "list", "dict"}

\* C18: an INDEX step whose lookup misses pushes Nil in place of container
\* and key, and a BIN_IN step whose right operand has no membership pushes
\* Bool false in place of the two operands; neither raises, and the execution
\* goes on with the next instruction.
C18_SoftFailure ==
    [][/\ (At("INDEX") /\ IndexMiss(pop(popped(stack)), pop(stack))) =>
             /\ status' = "running" /\ error' = error
             /\ stack' = push(popped(popped(stack)), iNil)
             /\ call_stack' = [call_stack EXCEPT ![Len(call_stack)].pc = pc + 1]
       /\ (At("BIN_IN") /\ NoContainer(pop(stack))) =>
             /\ status' = "running" /\ error' = error
             /\ stack' = push(popped(popped(stack)), iBool(FALSE))
             /\ call_stack' = [call_stack EXCEPT ![Len(call_stack)].pc = pc + 1]
       /\ (Case.name \in {"PIndexMiss", "PInUnsupported"}
             /\ status' \in {"done", "error"}) =>
             /\ status' = "done"
             /\ stdout' = <<iString("after")>>
             /\ result' = IF Case.name = "PIndexMiss" THEN iNil ELSE iBool(FALSE)]_vars

\* the List [1, 2] was indexed with 2: Nil took the place of the two operands
C18_Reached ==
    /\ Case.name = "PIndexMiss" /\ status = "running"
    /\ pc >= 1 /\ cur.code[pc].op = "INDEX"
    /\ stack = <<iNil>>
    /\ heap # <<>> /\ "items" \in DOMAIN heap[1]
    /\ heap[1].items = <<iInteger(1), iInteger(2)>>

\* the fields of the container header, as _pack lays them out
Blob == serialized.v

MetaLen == from_bytes(Slice(Blob, 8, 12))

BodyLen == from_bytes(Slice(Blob, 12, 16))

WrongMagic == Slice(Blob, 0, 4) # MAGIC

WrongVersion == from_bytes(Slice(Blob, 4, 6)) # 1

ShortHeader == Len(Blob) < 20

LengthsExceed == 20 + MetaLen + BodyLen > Len(Blob)

CrcMismatch ==
    /\ ~ShortHeader /\ ~LengthsExceed
    /\ crc32(Slice(Blob, 20 + MetaLen, 20 + MetaLen + BodyLen)) # Slice(Blob, 16, 20)

UnknownOpcode == \E b \in BadOpcodeBodies, f \in FlagValues : Blob = _pack(b, None, f)

UnknownTag == \E b \in BadTagBodies, f \in FlagValues : Blob = _pack(b, None, f)

HeaderRejected == WrongMagic \/ WrongVersion \/ ShortHeader \/ LengthsExceed \/ CrcMismatch

\* C19: deserialize raises, and returns no instruction list, for a container
\* with a wrong magic, a version other than 1, fewer bytes than the fixed
\* header, lengths that reach beyond the blob, a CRC32 that is not the one of
\* the compressed body, an unknown opcode byte or an unknown argument tag.
\* The magic, version, length and CRC checks come before the body is
\* decompressed: a container they reject never fails in zlib.decompress or
\* in the decoding of instructions.
C19_Rejects ==
    decoded # None =>
        /\ (HeaderRejected \/ UnknownOpcode \/ UnknownTag) => ~decoded.ok
        /\ HeaderRejected =>
              decoded.exc \in {"ValueError: bad magic",
                               "ValueError: unsupported bytecode version",
                               "ValueError: bytecode header lengths out of range",
                               "ValueError: invalid metadata json",
                               "ValueError: bytecode CRC mismatch"}
        /\ UnknownOpcode => decoded.exc = "ValueError: Unknown opcode byte"
        /\ UnknownTag => decoded.exc = "ValueError: Unknown arg tag"

\* a byte of the compressed body was changed: the body is no zlib stream any
\* more, and deserialize has raised the CRC mismatch
C19_Reached ==
    /\ decoded # None /\ ~decoded.ok
    /\ ~WrongMagic /\ ~WrongVersion /\ CrcMismatch
    /\ ~zlib_decompress(Slice(Blob, 20 + MetaLen, 20 + MetaLen + BodyLen)).ok
    /\ decoded.exc = "ValueError: bytecode CRC mismatch"

\* C20: deserialize raises for every container whose flags field is not 0,
\* the value serialize writes, whatever the rest of the container is.
C20_RejectsFlags ==
    (decoded # None /\ Len(Blob) >= 8 /\ from_bytes(Slice(Blob, 6, 8)) # 0) => ~decoded.ok

\* C21: serialize raises, and returns no bytes, when an instruction of the
\* list or of the code of a Function nested in it at any depth has a List,
\* Dict, native function, bound method or host object as argument, or an
\* opcode without a byte; it returns bytes when every argument is Nil, an
\* Integer, a Bool, a String or a Function of which the same holds.
RECURSIVE EncodableArg(_)
EncodableArg(a) ==
    \/ a = None
    \/ a.t \in {"nil", "num", "bool", "str"}
    \/ /\ a.t = "func"
       /\ \A i \in 1..Len(a.code) :
              a.code[i].op \in DOMAIN OPCODE_TO_BYTE /\ EncodableArg(a.code[i].arg)

Encodable(instrs) ==
    \A i \in 1..Len(instrs) :
        instrs[i].op \in DOMAIN OPCODE_TO_BYTE /\ EncodableArg(instrs[i].arg)

C21_Unencodable ==
    serialized # None =>
        /\ serialized.ok <=> Encodable(code)
        /\ ~Encodable(code) => "v" \notin DOMAIN serialized

\* serialize has raised for a list whose unencodable argument lies in a
\* nested Function only
C21_Reached ==
    /\ serialized # None
    /\ ~serialized.ok
    /\ Len(code) = 2
    /\ code[1] = Instruction("PUSH", iInteger(-300))
    /\ code[2] = Instruction("PUSH", CallInNested)

\* C22: a BIN_ADD step with two Strings on top of the stack (lhs beneath
\* rhs) replaces them by the String lhs followed by rhs, and with two
\* Integers by the Integer lhs + rhs.
C22_Add ==
    [][(At("BIN_ADD") /\ Len(stack) >= 2) =>
          LET rhs == pop(stack)
              lhs == pop(popped(stack))
          IN  /\ (lhs.t = "str" /\ rhs.t = "str") =>
                    stack' = push(popped(popped(stack)), iString(lhs.s \o rhs.s))
              /\ (IsInt(lhs) /\ IsInt(rhs)) =>
                    stack' = push(popped(popped(stack)), iInteger(lhs.n + rhs.n))]_vars

\* the operator and the operands of `return c1() op c2()`
BinKind == Case.tree.children[3].expr.k

\* the integer a literal, or a negated literal, denotes
LitInt(e) == IF e.k = "neg" THEN 0 - e.expr.v ELSE e.v

Left == LitInt(Case.tree.children[1].body.children[2].expr)

RightExpr == Case.tree.children[2].body.children[2].expr

\* l % r for r # 0: the m with l = q * r + m for an integer q, between 0 and
\* r (r excluded)
RefMod(l, r) ==
    CHOOSE m \in (IF r > 0 THEN 0..(r - 1) ELSE (r + 1)..0) :
        \E q \in (0 - (Abs(l) + 1))..(Abs(l) + 1) : l = q * r + m

\* the reference value of l op r
RefBin(k, l, r) ==
    CASE k = "sub" -> iInteger(l - r)
      [] k = "mul" -> iInteger(l * r)
      [] k = "mod" -> iInteger(RefMod(l, r))
      [] k = "lt" -> iBool(l < r)
      [] k = "le" -> iBool(l <= r)
      [] k = "gt" -> iBool(l > r)
      [] k = "ge" -> iBool(l >= r)
      [] k = "eq" -> iBool(l = r)
      [] k = "ne" -> iBool(l # r)

RefIn(l, list) == iBool(\E i \in 1..Len(list.items) : list.items[i].v = l)

\* C23: `l op r` with op among - * % < <= > >= == != in evaluates l, then r
\* (the output of the two operand calls comes in that order), and returns the
\* reference value of l op r with l the left operand; a remainder by 0 has no
\* reference value and raises.  `-x` returns 0 - x, and (1 + 2) * 3 returns 9.
C23_Binary ==
    [][/\ (origin = "compiler" /\ Case.name = "PBin") =>
             /\ Len(stdout') <= 2
             /\ stdout' = SubSeq(<<iString("c1"), iString("c2")>>, 1, Len(stdout'))
             /\ status' \in {"done", "error"} =>
                   /\ stdout' = <<iString("c1"), iString("c2")>>
                   /\ stack' = <<>>
                   /\ IF BinKind = "in_op"
                      THEN status' = "done" /\ result' = RefIn(Left, RightExpr)
                      ELSE IF BinKind = "mod" /\ LitInt(RightExpr) = 0
                      THEN status' = "error" /\ error' = "ZeroDivisionError"
                      ELSE status' = "done"
                           /\ result' = RefBin(BinKind, Left, LitInt(RightExpr))
       /\ (origin = "compiler" /\ Case.name = "PNeg" /\ status' \in {"done", "error"}) =>
             status' = "done" /\ result' = iInteger(0 - Left) /\ stdout' = <<iString("c1")>>
       /\ (origin = "compiler" /\ Case.name = "PParens" /\ status' \in {"done", "error"}) =>
             status' = "done" /\ result' = iInteger(9)]_vars

\* 1 - 2 has returned -1 after c1, then c2, were called
C23_Reached ==
    /\ origin = "compiler" /\ Case.name = "PBin" /\ status = "done"
    /\ BinKind = "sub" /\ Left = 1 /\ LitInt(RightExpr) = 2
    /\ result = iInteger(-1)
    /\ stdout = <<iString("c1"), iString("c2")>>

\* the instruction exec is at, as the hook is to receive it
TraceCall == [pc |-> pc, op |-> cur.code[pc + 1].op, arg |-> arg, stack |-> stack]

\* the (pc, opcode) of every instruction each program executes, in order, the
\* pc counted within the code being executed
TraceExpected ==
    [PTrace |->
        [calls |-> <<<<0, "PUSH">>, <<1, "STORE">>, <<2, "PUSH_GLOBAL">>, <<3, "PUSH">>,
                     <<4, "CALL_FN">>, <<0, "PUSH_LOCAL">>, <<1, "PUSH">>,
                     <<2, "BIN_ADD">>, <<3, "RETURN">>, <<5, "RETURN">>>>,
         status |-> "done", result |-> iInteger(3), stdout |-> <<>>],
     PTraceLoop |->
        [calls |-> <<<<0, "PUSH_GLOBAL">>, <<1, "PUSH">>, <<2, "CALL_FN">>,
                     <<3, "ITER_INIT">>, <<4, "ITER_NEXT">>, <<5, "JUMP_IF_FALSE">>,
                     <<6, "STORE">>, <<7, "PUSH_GLOBAL">>, <<8, "PRINT">>, <<9, "JUMP">>,
                     <<4, "ITER_NEXT">>, <<5, "JUMP_IF_FALSE">>, <<6, "STORE">>,
                     <<7, "PUSH_GLOBAL">>, <<8, "PRINT">>, <<9, "JUMP">>,
                     <<4, "ITER_NEXT">>, <<5, "JUMP_IF_FALSE">>, <<10, "POP">>,
                     <<11, "PUSH">>, <<12, "RETURN">>>>,
         status |-> "done", result |-> iInteger(7),
         stdout |-> <<iInteger(0), iInteger(1)>>],
     PTraceRaise |->
        [calls |-> <<<<0, "PUSH">>, <<1, "PRINT">>, <<2, "PUSH">>, <<3, "PUSH">>,
                     <<4, "BIN_MOD">>>>,
         status |-> "error", result |-> None, stdout |-> <<iInteger(1)>>]]

\* C24: with a trace hook installed, the hook is called once for every
\* instruction exec executes, before the instruction takes effect, also for
\* the instructions of a called Function's code (pc counted within that code),
\* with (pc, opcode, argument, stack), the stack being equal to the operand
\* stack at that moment; whatever the hook does to the list it receives, the
\* interpreter's stack and everything else of the interpreter stay as they
\* are, so the program runs as it does without a hook.
C24_TraceHook ==
    [][/\ (trace' # trace /\ run' = run) =>
             /\ trace_hook # "None" /\ status = "running" /\ ~hooked /\ hooked'
             /\ trace' = Append(trace, TraceCall)
             /\ UNCHANGED <<call_stack, stack, globals, local_frames, heap, stdout,
                            status, result, error>>
       /\ (trace_hook # "None" /\ status = "running" /\ pc < Len(cur.code)
             /\ <<call_stack, stack, globals, local_frames, heap, stdout, status>>'
                  # <<call_stack, stack, globals, local_frames, heap, stdout, status>>) =>
             /\ hooked /\ ~hooked'
             /\ trace' = trace
             /\ trace # <<>> /\ trace[Len(trace)] = TraceCall
       /\ trace_hook = "None" => trace' = <<>>
       /\ (origin = "compiler" /\ Case.name \in DOMAIN TraceExpected
             /\ status' \in {"done", "error"}) =>
             /\ status' = TraceExpected[Case.name].status
             /\ result' = TraceExpected[Case.name].result
             /\ stdout' = TraceExpected[Case.name].stdout
             /\ trace_hook # "None" =>
                   [i \in 1..Len(trace') |-> <<trace'[i].pc, trace'[i].op>>]
                      = TraceExpected[Case.name].calls]_vars

\* a hook that empties the list it receives has been called for the five
\* instructions before the call, the four of f's code that are executed (pc 0
\* to 3, with the argument on the stack) and the RETURN after the call
C24_Reached ==
    /\ origin = "compiler" /\ Case.name = "PTrace" /\ trace_hook = "clear"
    /\ status = "done" /\ result = iInteger(3)
    /\ Len(trace) = 10
    /\ trace[6] = [pc |-> 0, op |-> "PUSH_LOCAL", arg |-> iString("x"), stack |-> <<>>]
    /\ trace[9] = [pc |-> 3, op |-> "RETURN", arg |-> iNil, stack |-> <<iInteger(3)>>]

JumpOps == {"JUMP", "JUMP_IF_TRUE", "JUMP_IF_FALSE"}

\* every jump of instrs, and of the code of every Function among its
\* arguments, has an offset other than 0 and a target within 0..len
RECURSIVE JumpsInRange(_)
JumpsInRange(instrs) ==
    \A i \in 1..Len(instrs) :
        /\ instrs[i].op \in JumpOps =>
              /\ instrs[i].arg.n # 0
              /\ (i - 1) + instrs[i].arg.n \in 0..Len(instrs)
        /\ instrs[i].arg.t = "func" => JumpsInRange(instrs[i].arg.code)

\* the Functions the standard library compiles for the method table
CompiledMethods == {method_table.iList[name] : name \in {"each", "map", "filter"}}

\* C25: in the code the compiler emits for a program, and in the code of
\* every Function nested in it, each JUMP, JUMP_IF_TRUE and JUMP_IF_FALSE at
\* index i has an offset k # 0 with 0 <= i + k <= len(code).
C25_JumpTargets ==
    /\ origin = "compiler" => JumpsInRange(code)
    /\ \A fn \in CompiledMethods : JumpsInRange(fn.code)

\* a program has run whose Function holds a loop: a backward JUMP to
\* ITER_NEXT and a forward JUMP_IF_FALSE to the exit POP
C25_Reached ==
    /\ origin = "compiler" /\ Case.name = "PLoopFn" /\ status = "done"
    /\ code[1].arg.t = "func"
    /\ \E i \in 1..Len(code[1].arg.code) :
          /\ code[1].arg.code[i].op = "JUMP" /\ code[1].arg.code[i].arg.n < 0
          /\ code[1].arg.code[i + code[1].arg.code[i].arg.n].op = "ITER_NEXT"
    /\ \E i \in 1..Len(code[1].arg.code) :
          /\ code[1].arg.code[i].op = "JUMP_IF_FALSE"
          /\ code[1].arg.code[i + code[1].arg.code[i].arg.n].op = "POP"

\* the operator of `r = c1() op c2()` and what c1 returns
ShortOp == Case.tree.children[3].expr.k

ShortLeft == Case.tree.children[1].body.children[2].expr

\* bool() of what the left operand evaluates to
ShortLeftTruthy ==
    CASE ShortLeft.k = "var" -> FALSE
      [] ShortLeft.k = "dict" -> ShortLeft.items # <<>>
      [] OTHER -> LitTruthy(ShortLeft)

\* the right operand is evaluated for `and` with a truthy left operand and
\* for `or` with a falsy one
ShortPrints ==
    <<iString("c1")>> \o
    (IF (ShortOp = "and_op") = ShortLeftTruthy THEN <<iString("c2")>> ELSE <<>>) \o
    <<iString("after")>>

\* C26: `a and b` does not execute the instructions of b when a is falsy,
\* `a or b` does not when a is truthy (the call and the print b contains do
\* not happen), and when b is executed it is after all of a: the output so
\* far is always a prefix of c1, (c2), after.
C26_ShortCircuit ==
    [][(origin = "compiler" /\ Case.name = "PShort") =>
          /\ Len(stdout') <= Len(ShortPrints)
          /\ stdout' = SubSeq(ShortPrints, 1, Len(stdout'))
          /\ status' \in {"done", "error"} =>
                /\ status' = "done"
                /\ result' = iInteger(7)
                /\ stdout' = ShortPrints]_vars

\* `[] and c2()` has run without a call of c2
C26_Reached ==
    /\ origin = "compiler" /\ Case.name = "PShort" /\ status = "done"
    /\ ShortLeft = ListLit(<<>>) /\ ShortOp = "and_op"
    /\ stdout = <<iString("c1"), iString("after")>>

\* every Function among the arguments of instrs, and of their code, has code
\* that ends with RETURN and as many parameter names as its arity
RECURSIVE FunctionsClosed(_)
FunctionsClosed(instrs) ==
    \A i \in 1..Len(instrs) :
        instrs[i].arg.t = "func" =>
            LET fn == instrs[i].arg
            IN  /\ fn.code # <<>>
                /\ fn.code[Len(fn.code)].op = "RETURN"
                /\ fn.n_params = Len(fn.param_names)
                /\ FunctionsClosed(fn.code)

\* what the programs whose call runs to the end of the body return and print
FallResult ==
    [PFallDef |-> [result |-> iNil, stdout |-> <<iInteger(1), iString("after")>>],
     PFallIf |-> [result |-> iNil, stdout |-> <<iInteger(1)>>],
     PFallFor |-> [result |-> iNil, stdout |-> <<iInteger(1), iInteger(2)>>],
     PFallLambda |-> [result |-> iNil, stdout |-> <<iInteger(2)>>],
     PExprLambda |-> [result |-> iBool(FALSE), stdout |-> <<>>]]

\* C27: every Function in compiled code (from def, an expression lambda or a
\* block lambda, nested to any depth) has a non-empty code whose last
\* instruction is RETURN and an arity equal to the number of its parameter
\* names; the exec of a call never has its pc at or beyond the end of the
\* body, and a call that reaches the end of the body's statements returns Nil.
C27_FunctionsReturn ==
    origin = "compiler" =>
        /\ FunctionsClosed(code)
        /\ \A fn \in CompiledMethods : FunctionsClosed(<<Instruction("PUSH", fn)>>)
        /\ (status = "running" /\ Len(call_stack) > 1) => pc < Len(cur.code)
        /\ (Case.name \in DOMAIN FallResult /\ Ended) =>
              /\ status = "done"
              /\ result = FallResult[Case.name].result
              /\ stdout = FallResult[Case.name].stdout

\* f(0) has gone past the if statement, the last statement of f's body, and
\* returned Nil
C27_Reached ==
    /\ origin = "compiler" /\ Case.name = "PFallIf" /\ status = "done"
    /\ result = iNil /\ stdout = <<iInteger(1)>>
    /\ code[1].arg.code[Len(code[1].arg.code)].op = "RETURN"

\* what the programs whose top-level statement `y = f(...)` calls a Function
\* with nothing else on the operand stack return
CallResult ==
    [PCallOrder |-> iInteger(2), PCallRecur |-> iInteger(6),
     PCallNested |-> iInteger(4), PForReturnFn |-> iInteger(0)]

\* C28: CALL_FN(n) on a Function of arity n pushes one frame that binds the
\* i-th parameter name to the i-th argument and leaves the stack beneath the
\* callee; when the call returns, the frame stack is the one before the call
\* (the callee's frame popped, the frames below untouched by the callee's
\* steps) and the operand stack is the stack beneath the callee with the
\* returned value pushed: for a call made with nothing beneath, that value
\* alone.
C28_CallReturn ==
    [][/\ (At("CALL_FN") /\ Callee.t = "func" /\ Callee.n_params = arg.n) =>
             /\ Len(local_frames') = Len(local_frames) + 1
             /\ SubSeq(local_frames', 1, Len(local_frames)) = local_frames
             /\ DOMAIN local_frames'[Len(local_frames')]
                   = {Callee.param_names[i] : i \in 1..arg.n}
             /\ \A i \in 1..arg.n :
                   local_frames'[Len(local_frames')][Callee.param_names[i]]
                      = CallArgs[i]
             /\ stack' = popped(poppedn(stack, arg.n))
       /\ (status = "running" /\ status' = "running"
             /\ Len(call_stack') = Len(call_stack) - 1) =>
             local_frames' = SubSeq(local_frames, 1, Len(local_frames) - 1)
       /\ (status = "running" /\ status' = "running" /\ Len(local_frames) > 1
             /\ Len(call_stack') = Len(call_stack)) =>
             SubSeq(local_frames', 1, Len(local_frames) - 1)
                = SubSeq(local_frames, 1, Len(local_frames) - 1)
       /\ (origin = "compiler" /\ Case.name \in DOMAIN CallResult
             /\ Len(call_stack) = 2 /\ Len(call_stack') = 1) =>
             /\ local_frames' = <<>>
             /\ stack' = <<IF pc < Len(cur.code) THEN pop(stack) ELSE iNil>>
       /\ (origin = "compiler" /\ Case.name \in DOMAIN CallResult
             /\ status' \in {"done", "error"}) =>
             /\ status' = "done"
             /\ result' = CallResult[Case.name]
             /\ stack' = <<>>
             /\ local_frames' = <<>>]_vars

\* op is the opcode of an instruction of instrs or of the code of a Function
\* among its arguments
RECURSIVE Emits(_, _)
Emits(instrs, op) ==
    \E i \in 1..Len(instrs) :
        \/ instrs[i].op = op
        \/ instrs[i].arg.t = "func" /\ Emits(instrs[i].arg.code, op)

\* C29: the code the compiler emits for a program holds no SET_ATTR, at top
\* level or in a Function, so no compiled program is ever about to execute
\* SET_ATTR or ends in the error its handler raises.
C29_NoSetAttr ==
    origin = "compiler" =>
        /\ ~Emits(code, "SET_ATTR")
        /\ ~(status = "running" /\ pc < Len(cur.code) /\ cur.code[pc + 1].op = "SET_ATTR")
        /\ error # "NotImplementedError"

\* the variants whose truthiness is tabulated
Tabulated(v) == v.t \in {"nil", "bool", "num", "str", "list", "dict"}

\* the table: Nil is false, a Bool is itself, an Integer is false iff it is
\* 0, a String, List or Dict is false iff it is empty
Table(v, h) ==
    CASE v.t = "nil" -> FALSE
      [] v.t = "bool" -> v.b
      [] v.t = "num" -> ~(\/ IsInt(v) /\ v.n = 0
                          \/ IsFloat(v) /\ v.num = 0)
      [] v.t = "str" -> v.s # ""
      [] v.t = "list" -> Len(h[v.ref].items) > 0
      [] v.t = "dict" -> Len(h[v.ref].keys) > 0

\* the truth values the projection may give v
Projections(v, h) == IF Tabulated(v) THEN {Table(v, h)} ELSE BOOLEAN

TruthStep(op) == At(op) /\ stack # <<>>

NextPc == call_stack'[Len(call_stack')].pc

\* C30: there is one truth value t(v) for each value v, the tabulated one
\* for Nil, Bool, Integer, String, List and Dict: a NOT step replaces v on
\* top of the stack by Bool(not t(v)), a JUMP_IF_FALSE step pops v and
\* jumps iff not t(v), a JUMP_IF_TRUE step pops v and jumps iff t(v); and
\* `not x`, `if x` and `x or false` agree on the value of x.
C30_Truthiness ==
    [][/\ TruthStep("NOT") =>
            \E t \in Projections(pop(stack), heap) :
                /\ stack' = push(popped(stack), iBool(~t))
                /\ Len(call_stack') = Len(call_stack) /\ NextPc = pc + 1
       /\ TruthStep("JUMP_IF_FALSE") =>
            \E t \in Projections(pop(stack), heap) :
                /\ stack' = popped(stack)
                /\ Len(call_stack') = Len(call_stack)
                /\ NextPc = IF ~t THEN pc + arg.n ELSE pc + 1
       /\ TruthStep("JUMP_IF_TRUE") =>
            \E t \in Projections(pop(stack), heap) :
                /\ stack' = popped(stack)
                /\ Len(call_stack') = Len(call_stack)
                /\ NextPc = IF t THEN pc + arg.n ELSE pc + 1
       /\ (Case.name = "PTruth" /\ status = "running" /\ status' \in {"done", "error"}) =>
            /\ status' = "done"
            /\ result' = iInteger(7)
            /\ \E t \in Projections(globals'["x"], heap') :
                  stdout' = <<iBool(~t)>> \o (IF t THEN <<iString("t")>> ELSE <<>>)
                               \o <<iBool(t)>>]_vars

\* the text a Dict holds for a String, Integer, Bool or Nil key
KeyText(v) ==
    CASE v.t = "str" -> v.s
      [] v.t = "bool" -> IF v.b THEN "True" ELSE "False"
      [] v.t = "nil" -> "None"
      [] OTHER -> ToString(v.n)

\* the positions at which a key appears for the first time, and the k-th of them
FirstAt(ks) == {i \in 1..Len(ks) : \A j \in 1..(i - 1) : ks[j] # ks[i]}

NthFirst(ks, k) ==
    CHOOSE i \in FirstAt(ks) : Cardinality({j \in FirstAt(ks) : j < i}) = k - 1

\* the last position at which the key at position i appears
LastOf(ks, i) ==
    CHOOSE j \in 1..Len(ks) : ks[j] = ks[i] /\ \A l \in (j + 1)..Len(ks) : ks[l] # ks[i]

\* the Dict of the pairs (ks[i], vs[i]): each key at its first position with
\* its last value
RefDict(ks, vs) ==
    [kind |-> "dict",
     keys |-> [k \in 1..Cardinality(FirstAt(ks)) |-> ks[NthFirst(ks, k)]],
     vals |-> [k \in 1..Cardinality(FirstAt(ks)) |-> vs[LastOf(ks, NthFirst(ks, k))]]]

\* the stack under the top n values, and those values in push order
Below(n) == SubSeq(stack, 1, Len(stack) - n)

Top(n) == SubSeq(stack, Len(stack) - n + 1, Len(stack))

\* C31: a MAKE_LIST(n) step on a stack of at least n values replaces the top n
\* by one new List holding them in push order, and a MAKE_DICT(n) step on a
\* stack of at least 2n values replaces the top 2n by one new Dict whose keys
\* are in the order their pairs were pushed, a repeated key at its first
\* position with its last value; the stack below and the objects that exist
\* are unchanged.
C31_Make ==
    [][/\ (At("MAKE_LIST") /\ Len(stack) >= arg.n) =>
             /\ heap' = Append(heap, [kind |-> "list", items |-> Top(arg.n)])
             /\ stack' = Append(Below(arg.n), iList(Len(heap) + 1))
       /\ (At("MAKE_DICT") /\ Len(stack) >= 2 * arg.n) =>
             LET kv == Top(2 * arg.n)
                 ks == [i \in 1..arg.n |-> KeyText(kv[2 * i - 1])]
                 vs == [i \in 1..arg.n |-> kv[2 * i]]
             IN  /\ heap' = Append(heap, RefDict(ks, vs))
                 /\ stack' = Append(Below(2 * arg.n), iDict(Len(heap) + 1))]_vars

\* the Dict of (1, 10), ("b", 20), ("1", 30) and the List of 7, 8, 9 were made
\* above the value 5
C31_Reached ==
    /\ Case.name = "RawMake"
    /\ status = "running"
    /\ stack = <<iInteger(5), iDict(1), iList(2)>>
    /\ heap[1] = [kind |-> "dict", keys |-> <<"1", "b">>,
                  vals |-> <<iInteger(30), iInteger(20)>>]
    /\ heap[2] = [kind |-> "list", items |-> <<iInteger(7), iInteger(8), iInteger(9)>>]

\* the quotient of a by b # 0 truncated toward zero, or toward minus infinity
Quotient(dir, a, b) ==
    LET q == Abs(a) \div Abs(b)
    IN  IF (a >= 0) = (b > 0) THEN q
        ELSE IF dir = "floor" /\ q * Abs(b) # Abs(a) THEN -(q + 1)
        ELSE -q

\* C32: every BIN_DIV step on Integers a and b # 0 replaces them by the
\* Integer holding the quotient of a by b truncated toward zero or toward
\* minus infinity, and every BIN_MOD step by the Integer a - b * quotient
\* for the quotient of one of these two directions.
C32_DivMod ==
    [][(Len(stack) >= 2 /\ IsInt(pop(stack)) /\ IsInt(pop(popped(stack)))
            /\ pop(stack).n # 0) =>
          LET b == pop(stack).n
              a == pop(popped(stack)).n
          IN  /\ At("BIN_DIV") =>
                    \E dir \in {"zero", "floor"} :
                        stack' = push(popped(popped(stack)), iInteger(Quotient(dir, a, b)))
              /\ At("BIN_MOD") =>
                    \E dir \in {"zero", "floor"} :
                        stack' = push(popped(popped(stack)),
                                      iInteger(a - b * Quotient(dir, a, b)))]_vars

\* C33: when a fatal error has been raised while a Function body was
\* executing, the frame stack is as deep as it was when the outermost exec
\* was entered on the new interpreter: empty.
C33_FramesRestored == (status = "error" /\ Len(call_stack) > 1) => local_frames = <<>>

\* how execution ends: normally with a result, or with an error
Ends(res, out, stk, h) ==
    [status |-> "done", error |-> "", result |-> res, stdout |-> out, stack |-> stk,
     heap |-> h]

Fails(exc, stk) ==
    [status |-> "error", error |-> exc, result |-> None, stdout |-> <<>>, stack |-> stk,
     heap |-> <<>>]

\* the end of each list of Underflows when the missing operands are Nil
NilOutcomes ==
    <<Ends(iInteger(1), <<>>, <<>>, <<>>),
      Ends(iBool(TRUE), <<>>, <<>>, <<>>),
      Ends(iNil, <<iNil>>, <<>>, <<>>),
      Ends(iNil, <<>>, <<>>, <<>>),
      Ends(iInteger(2), <<>>, <<>>, <<>>),
      Ends(iInteger(1), <<>>, <<>>, <<>>),
      Ends(iBool(TRUE), <<>>, <<>>, <<>>),
      Fails("TypeError", <<>>),
      Ends(iList(1), <<>>, <<>>,
           <<[kind |-> "list", items |-> <<iNil, iNil, iInteger(1)>>]>>),
      Ends(iDict(1), <<>>, <<>>,
           <<[kind |-> "dict", keys |-> <<"None">>, vals |-> <<iInteger(1)>>]>>),
      Ends(iInteger(1), <<>>, <<>>, <<>>),
      Ends(iNil, <<>>, <<>>, <<>>),
      Ends(iNil, <<>>, <<>>, <<>>),
      Ends(iInteger(2), <<>>, <<>>, <<>>),
      Ends(iNil, <<>>, <<>>, <<>>)>>

\* C34: an instruction list that pops more values than the stack holds ends
\* as the same list does after pushing a Nil for each missing value, without
\* an error of its own; and a step that pops one value from the empty stack
\* and pushes nothing leaves the stack empty and the execution running.
C34_Underflow ==
    [][/\ (Case.name \in {"RawUnderflow", "RawPadded"} /\ status = "running"
              /\ status' \in {"done", "error"}) =>
             [status |-> status', error |-> error', result |-> result',
              stdout |-> stdout', stack |-> stack', heap |-> heap'] = NilOutcomes[Case.pair]
       /\ (stack = <<>> /\ (At("POP") \/ At("PRINT") \/ At("STORE") \/ At("JUMP_IF_FALSE")
                              \/ At("JUMP_IF_TRUE"))) =>
             stack' = <<>> /\ status' = "running"]_vars

\* MAKE_LIST(3) on a stack holding only the Integer 1 made [Nil, Nil, 1]
C34_Reached ==
    /\ Case.name = "RawUnderflow"
    /\ Case.code = Underflows[9].code
    /\ status = "done"
    /\ result = iList(1)
    /\ heap[1].items = <<iNil, iNil, iInteger(1)>>

\* what was serialized is followed by other bytes
Extended == serialized.ok /\ Len(serialized.v) > Len(serialize(code, meta_arg).v)

\* C35: peek_metadata on the blob serialize(code, meta=m) wrote, followed by
\* other bytes or not, returns m (the empty object when m was not given),
\* and deserialize on it returns code whatever m is.
C35_Metadata ==
    /\ peeked # None =>
          peeked = [ok |-> TRUE, v |-> IF meta_arg = None THEN Meta(<<>>) ELSE meta_arg]
    /\ decoded # None => decoded.ok /\ decoded.v = code

\* a blob with two metadata members and bytes after the body was peeked and
\* deserialized
C35_Reached ==
    /\ meta_arg = Meta(<<<<"name", "policy">>, <<"k", "v">>>>)
    /\ code = <<Instruction("PUSH", InnerFunction), Instruction("RETURN", iNil)>>
    /\ serialized # None
    /\ Extended
    /\ peeked # None /\ peeked.ok /\ peeked.v = meta_arg
    /\ decoded # None /\ decoded.ok /\ decoded.v = code

\* the text after the argument for a target tgt of a list of code_len
\* instructions
Shown(tgt, code_len) ==
    " -> @" \o ToString(tgt)
        \o (IF 0 <= tgt /\ tgt <= code_len THEN "" ELSE " (out-of-range)")

\* C36: in the listing of a program, the line of every JUMP, JUMP_IF_TRUE and
\* JUMP_IF_FALSE at index i with offset k shows the target i + k, marked as
\* out of range exactly when it is outside 0..len(code); and when the
\* interpreter takes such a jump of the program, control goes to the index
\* its line shows.
C36_JumpTargets ==
    [][listing # None =>
          /\ \A l \in 1..Len(code) :
                code[l].op \in JumpOps =>
                    listing[l][4] = Shown((l - 1) + code[l].arg.n, Len(code))
          /\ (status = "running" /\ Len(call_stack) = 1 /\ Traced /\ pc < Len(cur.code)
                  /\ cur.code = code /\ cur.code[pc + 1].op \in JumpOps
                  /\ Len(call_stack') = 1 /\ NextPc # pc + 1) =>
                listing[pc + 1][4] = Shown(NextPc, Len(code))]_vars

====
